---- MODULE Spec2Model ----
(***************************************************************************)
(* Verification model of the procedural city-block generator of sketch 8   *)
(* (src/8/graph.js, src/8/utils.js): the 2D segment-intersection routines, *)
(* the growth graph, the wedge-based region extractor and the polygon      *)
(* inset.                                                                  *)
(*                                                                         *)
(* Numbers.  The JavaScript code computes in IEEE doubles.  The model      *)
(* computes in exact rationals <<n, d>> (d > 0, lowest terms); every input *)
(* set below is chosen so that each value the code computes on it is       *)
(* rational (square roots are only taken of perfect squares).  Tolerances  *)
(* such as 1e-6 or 1e-10 are compared exactly.                             *)
(***************************************************************************)
EXTENDS Integers, Sequences, FiniteSets, TLC

(***************************************************************************)
(* Exact rational arithmetic                                               *)
(***************************************************************************)
IAbs(i) == IF i < 0 THEN 0 - i ELSE i

RECURSIVE Gcd(_, _)
Gcd(a, b) == IF b = 0 THEN a ELSE Gcd(b, a % b)

\* the rational n/d in lowest terms with a positive denominator (d # 0)
Rat(n, d) ==
  LET g == Gcd(IAbs(n), IAbs(d))
      s == IF d < 0 THEN 0 - 1 ELSE 1
  IN  <<(s * n) \div g, (s * d) \div g>>

R(i) == <<i, 1>>
Zero == R(0)
One == R(1)

\* sums over the least common denominator and products cancelled crosswise,
\* so that no intermediate value is larger than it has to be
RAddGcd(a, b, g) ==
  Rat(a[1] * (b[2] \div g) + b[1] * (a[2] \div g), (a[2] \div g) * b[2])
RAdd(a, b) ==
  IF a[2] = 1 /\ b[2] = 1 THEN <<a[1] + b[1], 1>> ELSE RAddGcd(a, b, Gcd(a[2], b[2]))
RNeg(a) == <<0 - a[1], a[2]>>
RSub(a, b) == RAdd(a, RNeg(b))
RMulGcd(a, b, g1, g2) ==
  <<(a[1] \div g1) * (b[1] \div g2), (a[2] \div g2) * (b[2] \div g1)>>
RMul(a, b) ==
  IF a[1] = 0 \/ b[1] = 0 THEN <<0, 1>>
  ELSE IF a[2] = 1 /\ b[2] = 1 THEN <<a[1] * b[1], 1>>
  ELSE RMulGcd(a, b, Gcd(IAbs(a[1]), b[2]), Gcd(IAbs(b[1]), a[2]))
RInv(a) == IF a[1] < 0 THEN <<0 - a[2], 0 - a[1]>> ELSE <<a[2], a[1]>>
RDiv(a, b) == RMul(a, RInv(b))
RAbs(a) == <<IAbs(a[1]), a[2]>>
RSign(a) == IF a[1] > 0 THEN 1 ELSE IF a[1] < 0 THEN 0 - 1 ELSE 0

\* -1, 0, 1 as an/ad is below, equal to, above bn/bd (ad, bd > 0); compares
\* integer parts and then the reciprocals of the fractional parts, so that no
\* cross product is formed
RECURSIVE FracCmp(_, _, _, _)
FracCmp(an, ad, bn, bd) ==
  LET qa == an \div ad
      qb == bn \div bd
      ra == an - qa * ad
      rb == bn - qb * bd
  IN  IF qa < qb THEN 0 - 1
      ELSE IF qa > qb THEN 1
      ELSE IF ra = 0 /\ rb = 0 THEN 0
      ELSE IF ra = 0 THEN 0 - 1
      ELSE IF rb = 0 THEN 1
      ELSE FracCmp(bd, rb, ad, ra)

RCmp(a, b) ==
  IF a[2] = b[2] THEN (IF a[1] < b[1] THEN 0 - 1 ELSE IF a[1] > b[1] THEN 1 ELSE 0)
  ELSE FracCmp(a[1], a[2], b[1], b[2])
RLt(a, b) == RCmp(a, b) < 0
RLe(a, b) == RCmp(a, b) <= 0
RGt(a, b) == RCmp(a, b) > 0
RGe(a, b) == RCmp(a, b) >= 0
RMin(a, b) == IF RLt(b, a) THEN b ELSE a
RMax(a, b) == IF RGt(b, a) THEN b ELSE a

\* the tolerances of the code: 10^-k as a rational (k <= 9)
RECURSIVE Pow10(_)
Pow10(k) == IF k = 0 THEN 1 ELSE 10 * Pow10(k - 1)
Eps(k) == <<1, Pow10(k)>>

\* |a| < 10^-k.  Denominators stay below 2^31 < 10^10, so for k > 9 a
\* non-zero a is never that small.
AbsBelowEps(a, k) ==
  IF k > 9 THEN a[1] = 0 ELSE RLt(RAbs(a), Eps(k))

\* the integer square root of a perfect square
ISqrt(s) == CHOOSE r \in 0..s : r * r = s
IsSquare(s) == \E r \in 0..s : r * r = s
\* Math.sqrt / Math.hypot on a rational whose root is rational
RSqrt(a) == <<ISqrt(a[1]), ISqrt(a[2])>>
RHasSqrt(a) == a[1] >= 0 /\ IsSquare(a[1]) /\ IsSquare(a[2])

(***************************************************************************)
(* Points: records [x, y] of rationals (graph.js stores the plane as the   *)
(* x and z components of a Vector3; y here is that z).                     *)
(***************************************************************************)
Pt(x, y) == [x |-> x, y |-> y]
IPt(i, j) == Pt(R(i), R(j))
Null == [kind |-> "null"]
PAdd(p, q) == Pt(RAdd(p.x, q.x), RAdd(p.y, q.y))
PSub(p, q) == Pt(RSub(p.x, q.x), RSub(p.y, q.y))
PScale(p, k) == Pt(RMul(p.x, k), RMul(p.y, k))
Dot(p, q) == RAdd(RMul(p.x, q.x), RMul(p.y, q.y))
Cross(p, q) == RSub(RMul(p.x, q.y), RMul(p.y, q.x))
DistSq(p, q) == Dot(PSub(p, q), PSub(p, q))

VARIABLES
  isectCall,    \* the intersection routine last called and its arguments
  isectResult   \* what it returned

isectVars == <<isectCall, isectResult>>

(***************************************************************************)
(* The segment-intersection routines                                       *)
(***************************************************************************)
\* (as getSegmentIntersection, with the flag left out of the range tests)
getSegmentIntersectionClosed(start1, end1, start2, end2, includeEndpoints) ==
  LET x1 == start1.x
      y1 == start1.y
      x2 == end1.x
      y2 == end1.y
      x3 == start2.x
      y3 == start2.y
      x4 == end2.x
      y4 == end2.y
      denominator == RSub(RMul(RSub(y4, y3), RSub(x2, x1)),
                          RMul(RSub(x4, x3), RSub(y2, y1)))
      ua == RDiv(RSub(RMul(RSub(x4, x3), RSub(y1, y3)),
                      RMul(RSub(y4, y3), RSub(x1, x3))), denominator)
      ub == RDiv(RSub(RMul(RSub(x2, x1), RSub(y1, y3)),
                      RMul(RSub(y2, y1), RSub(x1, x3))), denominator)
  IN  IF AbsBelowEps(denominator, 10) THEN Null
      ELSE IF (RLt(ua, Zero) \/ RGt(ua, One) \/ RLt(ub, Zero) \/ RGt(ub, One))
        THEN Null
      ELSE [kind |-> "hit",
            point |-> Pt(RAdd(x1, RMul(ua, RSub(x2, x1))),
                         RAdd(y1, RMul(ua, RSub(y2, y1))))]
\* graph.js getSegmentIntersection: a point, or null
getSegmentIntersection(start1, end1, start2, end2, includeEndpoints) ==
  LET x1 == start1.x
      y1 == start1.y
      x2 == end1.x
      y2 == end1.y
      x3 == start2.x
      y3 == start2.y
      x4 == end2.x
      y4 == end2.y
      denominator == RSub(RMul(RSub(y4, y3), RSub(x2, x1)),
                          RMul(RSub(x4, x3), RSub(y2, y1)))
      ua == RDiv(RSub(RMul(RSub(x4, x3), RSub(y1, y3)),
                      RMul(RSub(y4, y3), RSub(x1, x3))), denominator)
      ub == RDiv(RSub(RMul(RSub(x2, x1), RSub(y1, y3)),
                      RMul(RSub(y2, y1), RSub(x1, x3))), denominator)
  IN  IF AbsBelowEps(denominator, 10) THEN Null
      ELSE IF includeEndpoints
              /\ (RLt(ua, Zero) \/ RGt(ua, One) \/ RLt(ub, Zero) \/ RGt(ub, One))
        THEN Null
      ELSE IF ~includeEndpoints
              /\ (RLe(ua, Zero) \/ RGe(ua, One) \/ RLe(ub, Zero) \/ RGe(ub, One))
        THEN Null
      ELSE [kind |-> "hit",
            point |-> Pt(RAdd(x1, RMul(ua, RSub(x2, x1))),
                         RAdd(y1, RMul(ua, RSub(y2, y1))))]

\* utils.js getCoplanarSegmentIntersection: {distance, point}, or null
getCoplanarSegmentIntersection(start1, end1, start2, end2, includeEndPoints) ==
  LET EPSILON == Eps(6)
      rx == RSub(end1.x, start1.x)
      ry == RSub(end1.y, start1.y)
      sx == RSub(end2.x, start2.x)
      sy == RSub(end2.y, start2.y)
      rxs == RSub(RMul(rx, sy), RMul(ry, sx))
      qpx == RSub(start2.x, start1.x)
      qpy == RSub(start2.y, start1.y)
      qpxs == RSub(RMul(qpx, sy), RMul(qpy, sx))
      t == RDiv(qpxs, rxs)
      qpxr == RSub(RMul(qpx, ry), RMul(qpy, rx))
      u == RDiv(qpxr, rxs)
      lower == IF includeEndPoints THEN RNeg(EPSILON) ELSE EPSILON
      upper == IF includeEndPoints THEN RAdd(One, EPSILON)
                                   ELSE RSub(One, EPSILON)
  IN  IF AbsBelowEps(rxs, 6) THEN Null
      ELSE IF RGe(t, lower) /\ RLe(t, upper) /\ RGe(u, lower) /\ RLe(u, upper)
        THEN [kind |-> "hit", distance |-> t,
              point |-> Pt(RAdd(start1.x, RMul(t, rx)),
                           RAdd(start1.y, RMul(t, ry)))]
      ELSE Null

\* utils.js getSegmentSegmentIntersection (threshold = 1e-4): the closest
\* points of the two segments; {distance, point} when they are nearer than
\* the threshold and not at distance exactly 0, else null
getSegmentSegmentIntersection(start1, end1, start2, end2) ==
  LET u == PSub(end1, start1)
      v == PSub(end2, start2)
      w == PSub(start1, start2)
      a == Dot(u, u)
      b == Dot(u, v)
      c == Dot(v, v)
      d == Dot(u, w)
      e == Dot(v, w)
      D == RSub(RMul(a, c), RMul(b, b))
      par == RLt(D, Eps(8))
      sc0 == IF par THEN Zero ELSE RDiv(RSub(RMul(b, e), RMul(c, d)), D)
      tc0 == IF par THEN (IF RGt(b, c) THEN RDiv(d, b) ELSE RDiv(e, c))
                    ELSE RDiv(RSub(RMul(a, e), RMul(b, d)), D)
      \* clamp sc to [0, 1], recomputing tc
      sc1 == IF RLt(sc0, Zero) THEN Zero
             ELSE IF RGt(sc0, One) THEN One ELSE sc0
      tc1 == IF RLt(sc0, Zero) THEN RDiv(e, c)
             ELSE IF RGt(sc0, One) THEN RDiv(RAdd(e, b), c) ELSE tc0
      \* clamp tc to [0, 1], recomputing sc
      md == RNeg(d)
      mdb == RAdd(RNeg(d), b)
      tc == IF RLt(tc1, Zero) THEN Zero
            ELSE IF RGt(tc1, One) THEN One ELSE tc1
      sc == IF RLt(tc1, Zero)
              THEN (IF RLt(md, Zero) THEN Zero
                    ELSE IF RGt(md, a) THEN One ELSE RDiv(md, a))
            ELSE IF RGt(tc1, One)
              THEN (IF RLt(mdb, Zero) THEN Zero
                    ELSE IF RGt(mdb, a) THEN One ELSE RDiv(mdb, a))
            ELSE sc1
      p1 == PAdd(PScale(u, sc), start1)
      p2 == PAdd(PScale(v, tc), start2)
      distSq == DistSq(p1, p2)
  IN  IF distSq # Zero /\ RLt(distSq, Eps(8))
        THEN [kind |-> "hit", distance |-> distSq, point |-> p1]
        ELSE Null

\* the arguments the routines are called with: segments between distinct
\* points of a small lattice
IsectCoord == 2
IsectPoints == {IPt(i, j) : i \in 0..IsectCoord, j \in 0..IsectCoord}
IsectSegments == {s \in IsectPoints \X IsectPoints : s[1] # s[2]}

IsectIdle == isectCall = Null /\ isectResult = Null

CallGetSegmentIntersection ==
  /\ isectCall = Null
  /\ \E s \in IsectSegments, t \in IsectSegments, incl \in BOOLEAN :
       /\ isectCall' = [kind |-> "getSegmentIntersection", start1 |-> s[1],
                        end1 |-> s[2], start2 |-> t[1], end2 |-> t[2],
                        includeEndpoints |-> incl]
       /\ isectResult' = getSegmentIntersection(s[1], s[2], t[1], t[2], incl)

CallGetCoplanarSegmentIntersection ==
  /\ isectCall = Null
  /\ \E s \in IsectSegments, t \in IsectSegments, incl \in BOOLEAN :
       /\ isectCall' = [kind |-> "getCoplanarSegmentIntersection",
                        start1 |-> s[1], end1 |-> s[2], start2 |-> t[1],
                        end2 |-> t[2], includeEndpoints |-> incl]
       /\ isectResult' =
            getCoplanarSegmentIntersection(s[1], s[2], t[1], t[2], incl)

CallGetSegmentSegmentIntersection ==
  /\ isectCall = Null
  /\ \E s \in IsectSegments, t \in IsectSegments :
       /\ isectCall' = [kind |-> "getSegmentSegmentIntersection",
                        start1 |-> s[1], end1 |-> s[2], start2 |-> t[1],
                        end2 |-> t[2], includeEndpoints |-> TRUE]
       /\ isectResult' = getSegmentSegmentIntersection(s[1], s[2], t[1], t[2])

\* the caller takes the result; the next call can be made
IsectReturn ==
  /\ isectCall # Null
  /\ isectCall' = Null
  /\ isectResult' = Null

IsectNext ==
  \/ CallGetSegmentIntersection
  \/ CallGetCoplanarSegmentIntersection
  \/ CallGetSegmentSegmentIntersection
  \/ IsectReturn

\* reference geometry for the claims about the routines
Orient(p, q, r) == RSign(Cross(PSub(q, p), PSub(r, p)))
OnLine(p, q, r) == Orient(p, q, r) = 0
\* the two segments cross at exactly one point, interior to both
ProperCross(c) ==
  /\ Orient(c.start1, c.end1, c.start2) * Orient(c.start1, c.end1, c.end2) < 0
  /\ Orient(c.start2, c.end2, c.start1) * Orient(c.start2, c.end2, c.end1) < 0
ParallelSegments(c) ==
  Cross(PSub(c.end1, c.start1), PSub(c.end2, c.start2)) = Zero
IsCrossingPoint(c, p) ==
  OnLine(c.start1, c.end1, p) /\ OnLine(c.start2, c.end2, p)
CrossExample(c) ==
  /\ c.start1 = IPt(0, 0) /\ c.end1 = IPt(2, 2)
  /\ c.start2 = IPt(0, 2) /\ c.end2 = IPt(2, 0)
ParallelExample(c) ==
  /\ c.start1 = IPt(0, 0) /\ c.end1 = IPt(1, 0)
  /\ c.start2 = IPt(0, 1) /\ c.end2 = IPt(1, 1)

\* C7: each segment-intersection routine returns the crossing point for two
\* segments that cross at exactly one interior point ((0,0)-(2,2) against
\* (0,2)-(2,0) gives (1,1)), and returns no intersection for two parallel
\* segments ((0,0)-(1,0) against (0,1)-(1,1)).
C7_CrossingAndParallel ==
  isectCall # Null =>
    /\ ProperCross(isectCall) =>
         /\ isectResult # Null
         /\ IsCrossingPoint(isectCall, isectResult.point)
    /\ CrossExample(isectCall) =>
         isectResult # Null /\ isectResult.point = IPt(1, 1)
    /\ ParallelSegments(isectCall) => isectResult = Null

\* the same statement for the two routines that test the line parameters
C7_ParametricRoutines ==
  isectCall # Null /\ isectCall.kind # "getSegmentSegmentIntersection"
    => C7_CrossingAndParallel

(***************************************************************************)
(* GraphRegionExtractor (utils.js): wedges around every vertex, the face   *)
(* walk, removal of the face of largest |area|.  Vertex ids are the        *)
(* 0-based indices of the code; At reads a 0-based index.                  *)
(***************************************************************************)
VARIABLES
  vertices,       \* this.vertices: sequence of points
  edges,          \* this.edges: sequence of <<index1, index2>>
  wedges,         \* this.wedges: sequence of [u, v, w, used]
  regions,        \* this.regions: sequence of vertex-id sequences
  exPc,           \* where solve() stands
  scanI,          \* runPhaseTwo: the for-loop index i (0-based)
  startWedge,     \* runPhaseTwo: index into wedges of the walk's first wedge
  currentWedge,   \* runPhaseTwo: index into wedges of the walk's wedge
  currentRegion,  \* runPhaseTwo: wedge indices walked so far
  log             \* this.log: the messages of addLog, by their fixed text

exVars == <<vertices, edges, wedges, regions, exPc, scanI, startWedge,
            currentWedge, currentRegion, log>>

At(seq, i) == seq[i + 1]

\* the rank of Math.atan2(d.y, d.x) in (-PI, PI] by quadrant class, and the
\* comparison of two angles: -1, 0, 1
Atan2Class(d) ==
  IF RSign(d.y) < 0 THEN 0
  ELSE IF RSign(d.y) > 0 THEN 2
  ELSE IF RSign(d.x) < 0 THEN 3
  ELSE 1
AngleCmp(d1, d2) ==
  IF Atan2Class(d1) < Atan2Class(d2) THEN 0 - 1
  ELSE IF Atan2Class(d1) > Atan2Class(d2) THEN 1
  ELSE 0 - RSign(Cross(d1, d2))

\* runPhaseOne step 1: the targets pushed to adjacency.get(u), in edge order
RECURSIVE Neighbors(_, _, _)
Neighbors(es, u, k) ==
  IF k > Len(es) THEN <<>>
  ELSE (IF es[k][1] = u THEN <<es[k][2]>> ELSE <<>>)
       \o (IF es[k][2] = u THEN <<es[k][1]>> ELSE <<>>)
       \o Neighbors(es, u, k + 1)

\* Array.prototype.sort by ascending angle; stable, so ties keep their order
RECURSIVE InsertByAngle(_, _, _, _)
InsertByAngle(vs, u, sorted, v) ==
  IF sorted = <<>> THEN <<v>>
  ELSE IF AngleCmp(PSub(At(vs, v), At(vs, u)),
                   PSub(At(vs, Head(sorted)), At(vs, u))) < 0
    THEN <<v>> \o sorted
  ELSE <<Head(sorted)>> \o InsertByAngle(vs, u, Tail(sorted), v)
RECURSIVE SortedNeighbors(_, _, _, _)
SortedNeighbors(vs, u, ns, k) ==
  IF k = 0 THEN <<>>
  ELSE InsertByAngle(vs, u, SortedNeighbors(vs, u, ns, k - 1), ns[k])

\* step 4 without the pairing of consecutive entries: every neighbour is
\* paired with the first one
WedgesToFirst(vs, es, u) ==
  LET ns == Neighbors(es, u, 1)
      sn == SortedNeighbors(vs, u, ns, Len(ns))
      m == Len(sn)
  IN  [i \in 1..m |-> [u |-> sn[i], v |-> u, w |-> sn[1], used |-> FALSE]]
\* runPhaseOne step 4: the wedges around pivot u
WedgesAt(vs, es, u) ==
  LET ns == Neighbors(es, u, 1)
      sn == SortedNeighbors(vs, u, ns, Len(ns))
      m == Len(sn)
  IN  [i \in 1..m |-> [u |-> sn[i], v |-> u, w |-> sn[(i % m) + 1],
                       used |-> FALSE]]
RECURSIVE AllWedges(_, _, _)
AllWedges(vs, es, u) ==
  IF u >= Len(vs) THEN <<>>
  ELSE WedgesAt(vs, es, u) \o AllWedges(vs, es, u + 1)

\* wedgeMap.get(`${a}_${b}`): the index of the last wedge stored under the
\* key, 0 when the key is absent
WedgeMapGet(ws, a, b) ==
  LET hits == {k \in 1..Len(ws) : ws[k].u = a /\ ws[k].v = b}
  IN  IF hits = {} THEN 0 ELSE CHOOSE k \in hits : \A j \in hits : j <= k

\* solve: twice the signed area of a region
RECURSIVE RegionAreaFrom(_, _, _)
RegionAreaFrom(vs, region, i) ==
  IF i > Len(region) THEN Zero
  ELSE LET a == At(vs, region[i])
           b == At(vs, region[(i % Len(region)) + 1])
       IN  RAdd(RSub(RMul(a.x, b.y), RMul(b.x, a.y)),
                RegionAreaFrom(vs, region, i + 1))
RegionArea(vs, region) == RegionAreaFrom(vs, region, 1)

\* solve: the index (1-based) of the first region of largest |area| > 0,
\* 0 for the code's -1
RECURSIVE MaxIdxFrom(_, _, _, _, _)
MaxIdxFrom(vs, rs, r, maxArea, maxIdx) ==
  IF r > Len(rs) THEN maxIdx
  ELSE LET area == RAbs(RegionArea(vs, rs[r]))
       IN  IF RGt(area, maxArea) THEN MaxIdxFrom(vs, rs, r + 1, area, r)
           ELSE MaxIdxFrom(vs, rs, r + 1, maxArea, maxIdx)
MaxIdx(vs, rs) == MaxIdxFrom(vs, rs, 1, Zero, 0)

Splice(seq, k) == [j \in 1..(Len(seq) - 1) |-> IF j < k THEN seq[j] ELSE seq[j + 1]]

\* the graphs handed to the constructor: the first n points of a pool and at
\* most MaxEdges of the straight edges between them, such that edges meet
\* only at shared endpoints and pass through no vertex
ExPool == <<IPt(0, 0), IPt(3, 0), IPt(3, 3), IPt(0, 3), IPt(1, 2)>>
MaxEdges == 6
ExPairs(n) == {e \in (0..(n - 1)) \X (0..(n - 1)) : e[1] < e[2]}
RECURSIVE PairSeq(_, _, _)
PairSeq(n, a, b) ==
  IF a >= n - 1 THEN <<>>
  ELSE IF b >= n THEN PairSeq(n, a + 1, a + 2)
  ELSE <<(<<a, b>>)>> \o PairSeq(n, a, b + 1)
EdgeSeq(n, S) == SelectSeq(PairSeq(n, 0, 1), LAMBDA e : e \in S)

\* point r lies on the closed segment pq
OnSegment(p, q, r) ==
  /\ Orient(p, q, r) = 0
  /\ RLe(RMin(p.x, q.x), r.x) /\ RLe(r.x, RMax(p.x, q.x))
  /\ RLe(RMin(p.y, q.y), r.y) /\ RLe(r.y, RMax(p.y, q.y))
\* closed segments ab and cd have a point in common
SegmentsTouch(a, b, c, d) ==
  \/ /\ Orient(a, b, c) * Orient(a, b, d) < 0
     /\ Orient(c, d, a) * Orient(c, d, b) < 0
  \/ OnSegment(a, b, c) \/ OnSegment(a, b, d)
  \/ OnSegment(c, d, a) \/ OnSegment(c, d, b)
IsSimplePSLG(vs, S) ==
  /\ \A i, j \in 0..(Len(vs) - 1) : i # j => At(vs, i) # At(vs, j)
  /\ \A e \in S : \A k \in 0..(Len(vs) - 1) :
       k \notin {e[1], e[2]} => ~OnSegment(At(vs, e[1]), At(vs, e[2]), At(vs, k))
  /\ \A e, f \in S :
       (e # f /\ {e[1], e[2]} \cap {f[1], f[2]} = {}) =>
         ~SegmentsTouch(At(vs, e[1]), At(vs, e[2]), At(vs, f[1]), At(vs, f[2]))

ExIdle ==
  /\ vertices = <<>> /\ edges = <<>> /\ wedges = <<>> /\ regions = <<>>
  /\ exPc = "idle" /\ scanI = 0 /\ startWedge = 0 /\ currentWedge = 0
  /\ currentRegion = <<>>
  /\ log = <<>>

\* new GraphRegionExtractor(vertices, edges)
ExtractorNew ==
  /\ exPc = "idle"
  /\ \E n \in 1..Len(ExPool) : \E S \in SUBSET ExPairs(n) :
       /\ Cardinality(S) <= MaxEdges
       /\ IsSimplePSLG(SubSeq(ExPool, 1, n), S)
       /\ vertices' = SubSeq(ExPool, 1, n)
       /\ edges' = EdgeSeq(n, S)
  /\ wedges' = <<>>
  /\ regions' = <<>>
  /\ log' = <<>>
  /\ exPc' = "constructed"
  /\ UNCHANGED <<scanI, startWedge, currentWedge, currentRegion>>

\* the messages of runPhaseOne for the wedges ws it has found
PhaseOneLog(ws) ==
  <<"--- PHASE 1: FINDING WEDGES ---">>
    \o [k \in 1..Len(ws) |-> "Found Wedge"]
    \o <<"Total Wedges Found">>

\* solve() -> runPhaseOne(), and the head of runPhaseTwo()
RunPhaseOne ==
  /\ exPc = "constructed"
  /\ wedges' = AllWedges(vertices, edges, 0)
  /\ log' = log \o PhaseOneLog(AllWedges(vertices, edges, 0))
                \o <<"--- PHASE 2: GROUPING WEDGES ---">>
  /\ regions' = <<>>
  /\ scanI' = 0
  /\ exPc' = "scan"
  /\ UNCHANGED <<vertices, edges, startWedge, currentWedge, currentRegion>>

\* runPhaseTwo: one iteration of the for loop up to the while loop
ScanWedge ==
  /\ exPc = "scan"
  /\ scanI < Len(wedges)
  /\ IF At(wedges, scanI).used
       THEN /\ scanI' = scanI + 1
            /\ UNCHANGED <<exPc, startWedge, currentWedge, currentRegion, log>>
       ELSE /\ startWedge' = scanI + 1
            /\ currentWedge' = scanI + 1
            /\ currentRegion' = <<>>
            /\ log' = Append(log, "Starting new region with wedge")
            /\ exPc' = "walk"
            /\ UNCHANGED scanI
  /\ UNCHANGED <<vertices, edges, wedges, regions>>

\* the longest walk followed: more wedges than any graph of the model has
WalkCap == 2 * MaxEdges + 1

\* the while loop with a missing key ending the whole for loop
WalkStepGivesUp ==
  /\ exPc = "walk"
  /\ Len(currentRegion) < WalkCap
  /\ LET cw == wedges[currentWedge]
         nextWedge == WedgeMapGet(wedges, cw.v, cw.w)
         walked == Append(currentRegion, currentWedge)
         regionVertices == [k \in 1..Len(walked) |-> wedges[walked[k]].v]
     IN  /\ wedges' = [wedges EXCEPT ![currentWedge].used = TRUE]
         /\ IF nextWedge = 0 \/ nextWedge = startWedge
              THEN /\ regions' = Append(regions, regionVertices)
                   /\ log' = Append(log, IF nextWedge = 0
                                           THEN "Error: Broken topology"
                                           ELSE "Cycle closed.")
                   /\ currentRegion' = <<>>
                   /\ scanI' = IF nextWedge = 0 THEN Len(wedges) ELSE scanI + 1
                   /\ exPc' = "scan"
                   /\ UNCHANGED currentWedge
              ELSE /\ currentWedge' = nextWedge
                   /\ currentRegion' = walked
                   /\ UNCHANGED <<regions, scanI, exPc, log>>
  /\ UNCHANGED <<vertices, edges, startWedge>>
\* runPhaseTwo: one iteration of the while loop; on leaving it the region is
\* stored and the for loop moves on
WalkStep ==
  /\ exPc = "walk"
  /\ Len(currentRegion) < WalkCap
  /\ LET cw == wedges[currentWedge]
         nextWedge == WedgeMapGet(wedges, cw.v, cw.w)
         walked == Append(currentRegion, currentWedge)
         regionVertices == [k \in 1..Len(walked) |-> wedges[walked[k]].v]
     IN  /\ wedges' = [wedges EXCEPT ![currentWedge].used = TRUE]
         /\ IF nextWedge = 0 \/ nextWedge = startWedge
              THEN /\ regions' = Append(regions, regionVertices)
                   /\ log' = Append(log, IF nextWedge = 0
                                           THEN "Error: Broken topology"
                                           ELSE "Cycle closed.")
                   /\ currentRegion' = <<>>
                   /\ scanI' = scanI + 1
                   /\ exPc' = "scan"
                   /\ UNCHANGED currentWedge
              ELSE /\ currentWedge' = nextWedge
                   /\ currentRegion' = walked
                   /\ UNCHANGED <<regions, scanI, exPc, log>>
  /\ UNCHANGED <<vertices, edges, startWedge>>

\* solve(): the outer face is removed and this.regions returned
RemoveOuterFace ==
  /\ exPc = "scan"
  /\ scanI >= Len(wedges)
  /\ LET maxIdx == MaxIdx(vertices, regions)
     IN  regions' = IF maxIdx # 0 THEN Splice(regions, maxIdx) ELSE regions
  /\ log' = log \o <<"Total Regions Extracted", "Algorithm Time">>
  /\ exPc' = "returned"
  /\ UNCHANGED <<vertices, edges, wedges, scanI, startWedge, currentWedge,
                 currentRegion>>

ExtractNext ==
  \/ ExtractorNew
  \/ RunPhaseOne
  \/ ScanWedge
  \/ WalkStep
  \/ RemoveOuterFace

\* runPhaseOne() and runPhaseTwo() called one by one, as solve() calls them,
\* by a caller that may take one wedge out of the public array this.wedges
\* in between
runPhaseOne ==
  /\ exPc = "constructed"
  /\ wedges' = wedges \o AllWedges(vertices, edges, 0)
  /\ log' = log \o PhaseOneLog(AllWedges(vertices, edges, 0))
  /\ exPc' = "wedged"
  /\ UNCHANGED <<vertices, edges, regions, scanI, startWedge, currentWedge,
                 currentRegion>>
SpliceWedge ==
  /\ exPc = "wedged"
  /\ Len(wedges) = 2 * Len(edges)
  /\ \E k \in 1..Len(wedges) : wedges' = Splice(wedges, k)
  /\ UNCHANGED <<vertices, edges, regions, exPc, scanI, startWedge,
                 currentWedge, currentRegion, log>>
\* runPhaseTwo up to the for loop
runPhaseTwo ==
  /\ exPc = "wedged"
  /\ log' = Append(log, "--- PHASE 2: GROUPING WEDGES ---")
  /\ regions' = <<>>
  /\ scanI' = 0
  /\ exPc' = "scan"
  /\ UNCHANGED <<vertices, edges, wedges, startWedge, currentWedge,
                 currentRegion>>
\* runPhaseTwo after the for loop
PhaseTwoReturn ==
  /\ exPc = "scan"
  /\ scanI >= Len(wedges)
  /\ log' = Append(log, "Total Regions Extracted")
  /\ exPc' = "walked"
  /\ UNCHANGED <<vertices, edges, wedges, regions, scanI, startWedge,
                 currentWedge, currentRegion>>
WalkNext ==
  \/ ExtractorNew
  \/ runPhaseOne
  \/ SpliceWedge
  \/ runPhaseTwo
  \/ ScanWedge
  \/ WalkStep
  \/ PhaseTwoReturn

\* the constructor with any edge list over valid vertex indices: self-loops,
\* duplicate edges in either direction, zero-length edges (two vertices at
\* one position) and isolated vertices included
MaxAnyEdges == 3
AnyVertexLists ==
  {<<IPt(0, 0)>>,
   <<IPt(0, 0), IPt(3, 0), IPt(3, 0)>>,
   <<IPt(0, 0), IPt(3, 0), IPt(0, 3)>>}
AnyEdgeLists(n) ==
  UNION {[1..k -> (0..(n - 1)) \X (0..(n - 1))] : k \in 0..MaxAnyEdges}
ExtractorNewAny ==
  /\ exPc = "idle"
  /\ \E vs \in AnyVertexLists : \E es \in AnyEdgeLists(Len(vs)) :
       /\ vertices' = vs
       /\ edges' = es
  /\ wedges' = <<>>
  /\ regions' = <<>>
  /\ log' = <<>>
  /\ exPc' = "constructed"
  /\ UNCHANGED <<scanI, startWedge, currentWedge, currentRegion>>

\* solve() on any edge list
ExtractAnyNext ==
  \/ ExtractorNewAny
  \/ RunPhaseOne
  \/ ScanWedge
  \/ WalkStep
  \/ RemoveOuterFace

\* reference graph theory for the claims about the extractor
RECURSIVE ReachFrom(_, _, _)
ReachFrom(es, seen, k) ==
  LET more == seen \cup {v \in 0..(k - 1) :
                 \E j \in 1..Len(es) :
                    \/ es[j][1] \in seen /\ es[j][2] = v
                    \/ es[j][2] \in seen /\ es[j][1] = v}
  IN  IF more = seen THEN seen ELSE ReachFrom(es, more, k)
IsConnected(vs, es) == ReachFrom(es, {0}, Len(vs)) = 0..(Len(vs) - 1)
EdgeSet(es) == {es[j] : j \in 1..Len(es)}
IsSimplePlanarInput == IsSimplePSLG(vertices, EdgeSet(edges))

\* C2: for every connected simple planar straight-line graph with V vertices
\* and E edges, solve() returns exactly E - V + 1 regions; a tree gives an
\* empty result.
C2_EulerRegionCount ==
  (exPc = "returned" /\ IsSimplePlanarInput /\ IsConnected(vertices, edges))
    => Len(regions) = Len(edges) - Len(vertices) + 1

\* the same count for the connected graphs that have a cycle (E >= V)
C2_CountWithCycle ==
  (exPc = "returned" /\ IsSimplePlanarInput /\ IsConnected(vertices, edges)
     /\ Len(edges) >= Len(vertices))
    => Len(regions) = Len(edges) - Len(vertices) + 1

\* C10: whenever the face walk has produced zero or one face (no edges, a
\* single edge, a path), solve() returns an empty region list.
C10_FewFacesGiveEmpty ==
  [][(RemoveOuterFace /\ Len(regions) <= 1) => regions' = <<>>]_exVars

(***************************************************************************)
(* PolygonInset (utils.js): shrink and its helpers.  Polygons are          *)
(* sequences of points; idx(k, n) is the 1-based place of 0-based k mod n. *)
(***************************************************************************)
VARIABLES
  insetCall,     \* shrink's arguments [vertices, offset, miterLimit], or Null
  insetPc,       \* where shrink stands
  insetWork,     \* shrink's working polygon: raw, then resolved
  insetResult,   \* what shrink returned: Null or [kind |-> "poly", pts]
  insetHeap,     \* the arrays alive during the call, by reference; the
                 \* caller's array is the first
  insetPoly,     \* the reference that shrink's poly holds, 0 before the call
  insetEarlier   \* the call before this one and what it returned, or Null

insetVars ==
  <<insetCall, insetPc, insetWork, insetResult, insetHeap, insetPoly, insetEarlier>>

Half == <<1, 2>>
Reverse(seq) == [k \in 1..Len(seq) |-> seq[Len(seq) + 1 - k]]
Wrap(k, n) == (k % n) + 1

RECURSIVE SignedAreaSum(_, _)
SignedAreaSum(points, i) ==
  IF i > Len(points) THEN Zero
  ELSE LET j == Wrap(i, Len(points))
       IN  RAdd(RSub(RMul(points[i].x, points[j].y),
                     RMul(points[j].x, points[i].y)),
                SignedAreaSum(points, i + 1))
signedArea(points) == RMul(SignedAreaSum(points, 1), Half)

lineIntersection(p1, p2, p3, p4) ==
  LET d1x == RSub(p2.x, p1.x)
      d1y == RSub(p2.y, p1.y)
      d2x == RSub(p4.x, p3.x)
      d2y == RSub(p4.y, p3.y)
      denom == RSub(RMul(d1x, d2y), RMul(d1y, d2x))
      t == RDiv(RSub(RMul(RSub(p3.x, p1.x), d2y),
                     RMul(RSub(p3.y, p1.y), d2x)), denom)
  IN  IF AbsBelowEps(denom, 10) THEN Null
      ELSE [kind |-> "hit",
            point |-> Pt(RAdd(p1.x, RMul(t, d1x)), RAdd(p1.y, RMul(t, d1y)))]

\* the segment test with the endpoints counted in
segmentIntersectionInclusive(p1, p2, p3, p4) ==
  LET d1x == RSub(p2.x, p1.x)
      d1y == RSub(p2.y, p1.y)
      d2x == RSub(p4.x, p3.x)
      d2y == RSub(p4.y, p3.y)
      denom == RSub(RMul(d1x, d2y), RMul(d1y, d2x))
      t == RDiv(RSub(RMul(RSub(p3.x, p1.x), d2y),
                     RMul(RSub(p3.y, p1.y), d2x)), denom)
      u == RDiv(RSub(RMul(RSub(p3.x, p1.x), d1y),
                     RMul(RSub(p3.y, p1.y), d1x)), denom)
  IN  IF AbsBelowEps(denom, 10) THEN Null
      ELSE IF RGe(t, Zero) /\ RLe(t, One) /\ RGe(u, Zero) /\ RLe(u, One)
        THEN [kind |-> "hit",
              point |-> Pt(RAdd(p1.x, RMul(t, d1x)), RAdd(p1.y, RMul(t, d1y)))]
      ELSE Null
segmentIntersection(p1, p2, p3, p4) ==
  LET d1x == RSub(p2.x, p1.x)
      d1y == RSub(p2.y, p1.y)
      d2x == RSub(p4.x, p3.x)
      d2y == RSub(p4.y, p3.y)
      denom == RSub(RMul(d1x, d2y), RMul(d1y, d2x))
      t == RDiv(RSub(RMul(RSub(p3.x, p1.x), d2y),
                     RMul(RSub(p3.y, p1.y), d2x)), denom)
      u == RDiv(RSub(RMul(RSub(p3.x, p1.x), d1y),
                     RMul(RSub(p3.y, p1.y), d1x)), denom)
      eps == Eps(6)
  IN  IF AbsBelowEps(denom, 10) THEN Null
      ELSE IF RGt(t, eps) /\ RLt(t, RSub(One, eps))
              /\ RGt(u, eps) /\ RLt(u, RSub(One, eps))
        THEN [kind |-> "hit",
              point |-> Pt(RAdd(p1.x, RMul(t, d1x)), RAdd(p1.y, RMul(t, d1y)))]
      ELSE Null

\* the pairs (i, j), 0-based, that resolveSelfIntersections tests
LoopPairs(n) ==
  {p \in (0..(n - 1)) \X (0..(n - 1)) :
     p[2] >= p[1] + 2 /\ (p[2] + 1) % n # p[1]}
PairBefore(p, q) == p[1] < q[1] \/ (p[1] = q[1] /\ p[2] <= q[2])

\* resolveSelfIntersections, one pass of its outer loop: the first crossing
\* (i, j) splits the polygon into loop A and loop B, and the loop of positive
\* area (the larger when both are positive) replaces it
CutAt(pts, p) ==
  segmentIntersection(At(pts, p[1]), At(pts, (p[1] + 1) % Len(pts)),
                      At(pts, p[2]), At(pts, (p[2] + 1) % Len(pts)))
FirstHit(hits) == CHOOSE p \in hits : \A q \in hits : PairBefore(p, q)
KeepLoop(loopA, loopB, areaA, areaB) ==
  IF RGt(areaA, Zero) /\ RGt(areaB, Zero)
    THEN [kind |-> "cut", pts |-> IF RGe(areaA, areaB) THEN loopA ELSE loopB]
  ELSE IF RGt(areaA, Zero) THEN [kind |-> "cut", pts |-> loopA]
  ELSE IF RGt(areaB, Zero) THEN [kind |-> "cut", pts |-> loopB]
  ELSE Null
KeepLoopOf(loopA, loopB) ==
  KeepLoop(loopA, loopB, signedArea(loopA), signedArea(loopB))
\* the split with loop B keeping every vertex
SplitAtWhole(pts, first, pt) ==
  KeepLoopOf(<<pt>> \o SubSeq(pts, first[1] + 2, first[2] + 1),
             <<pt>> \o pts)
SplitAt(pts, first, pt) ==
  KeepLoopOf(<<pt>> \o SubSeq(pts, first[1] + 2, first[2] + 1),
             <<pt>> \o SubSeq(pts, first[2] + 2, Len(pts))
                    \o SubSeq(pts, 1, first[1] + 1))
SplitAtFirst(pts, first) == SplitAt(pts, first, CutAt(pts, first).point)
ResolvePassOn(pts, hits) ==
  IF hits = {} THEN [kind |-> "poly", pts |-> pts]
  ELSE SplitAtFirst(pts, FirstHit(hits))
ResolvePass(pts) ==
  IF Len(pts) < 3 THEN Null
  ELSE ResolvePassOn(pts, {p \in LoopPairs(Len(pts)) : CutAt(pts, p) # Null})

\* resolveSelfIntersections: passes until none finds a crossing, or until the
\* pass count reaches twice the current length
RECURSIVE resolveSelfIntersections(_, _)
ResolveAfter(pass, iter) ==
  IF pass.kind = "cut" THEN resolveSelfIntersections(pass.pts, iter + 1)
  ELSE pass
resolveSelfIntersections(pts, iter) ==
  IF iter >= Len(pts) * 2 THEN [kind |-> "poly", pts |-> pts]
  ELSE ResolveAfter(ResolvePass(pts), iter)

\* closestPointOnPolygon: the candidate on edge i (1-based), and the scan that
\* keeps the first strictly nearest one
ClosestOnEdge(pt, poly, i) ==
  LET a == poly[i]
      b == poly[Wrap(i, Len(poly))]
      dx == RSub(b.x, a.x)
      dy == RSub(b.y, a.y)
      lenSq == RAdd(RMul(dx, dx), RMul(dy, dy))
      t0 == RDiv(RAdd(RMul(RSub(pt.x, a.x), dx), RMul(RSub(pt.y, a.y), dy)),
                 lenSq)
      t == RMax(Zero, RMin(One, t0))
      p == Pt(RAdd(a.x, RMul(t, dx)), RAdd(a.y, RMul(t, dy)))
  IN  IF AbsBelowEps(lenSq, 12) THEN Null
      ELSE [kind |-> "hit", point |-> p, d |-> DistSq(pt, p)]
RECURSIVE ClosestFrom(_, _, _, _)
ClosestFrom(pt, poly, i, best) ==
  IF i > Len(poly) THEN best
  ELSE LET c == ClosestOnEdge(pt, poly, i)
       IN  IF c # Null /\ (best = Null \/ RLt(c.d, best.d))
             THEN ClosestFrom(pt, poly, i + 1, c)
             ELSE ClosestFrom(pt, poly, i + 1, best)
closestPointOnPolygon(pt, poly) == ClosestFrom(pt, poly, 1, Null).point

\* pointInPolygon: ray casting; edge i runs from poly[j] to poly[i]
CrossesRay(pt, poly, i) ==
  LET j == IF i = 1 THEN Len(poly) ELSE i - 1
      xi == poly[i].x
      yi == poly[i].y
      xj == poly[j].x
      yj == poly[j].y
  IN  /\ RGt(yi, pt.y) # RGt(yj, pt.y)
      /\ RLt(pt.x, RAdd(RDiv(RMul(RSub(xj, xi), RSub(pt.y, yi)),
                             RSub(yj, yi)), xi))
pointInPolygon(pt, poly) ==
  Cardinality({i \in 1..Len(poly) : CrossesRay(pt, poly, i)}) % 2 = 1

\* shrink step 1: edge i (1-based) of the CCW polygon moved inward by offset;
\* Null for an edge shorter than 1e-12
OffsetEdge(poly, i, offset) ==
  LET j == Wrap(i, Len(poly))
      dx == RSub(poly[j].x, poly[i].x)
      dy == RSub(poly[j].y, poly[i].y)
      len == RSqrt(RAdd(RMul(dx, dx), RMul(dy, dy)))
      nx == RMul(RDiv(RNeg(dy), len), offset)
      ny == RMul(RDiv(dx, len), offset)
  IN  IF AbsBelowEps(len, 12) THEN Null
      ELSE [kind |-> "edge",
            p1 |-> Pt(RAdd(poly[i].x, nx), RAdd(poly[i].y, ny)),
            p2 |-> Pt(RAdd(poly[j].x, nx), RAdd(poly[j].y, ny))]

\* shrink step 2: the raw vertices pushed for corner i (1-based)
RawAt(poly, i, offset, miterLimit) ==
  LET n == Len(poly)
      curr == OffsetEdge(poly, i, offset)
      next == OffsetEdge(poly, Wrap(i, n), offset)
      hit == lineIntersection(curr.p1, curr.p2, next.p1, next.p2)
      orig == poly[Wrap(i, n)]
      reach == RMul(offset, miterLimit)
      \* dist > offset * miterLimit, with dist = Math.hypot(...) >= 0
      tooFar == RLt(reach, Zero)
                \/ RGt(DistSq(hit.point, orig), RMul(reach, reach))
  IN  IF curr = Null \/ next = Null
        THEN (IF curr # Null THEN <<curr.p2>>
              ELSE IF next # Null THEN <<next.p1>> ELSE <<>>)
      ELSE IF hit # Null
        THEN (IF tooFar THEN <<curr.p2, next.p1>> ELSE <<hit.point>>)
      ELSE <<Pt(RMul(RAdd(curr.p2.x, next.p1.x), Half),
                RMul(RAdd(curr.p2.y, next.p1.y), Half))>>
RECURSIVE RawFrom(_, _, _, _)
RawFrom(poly, i, offset, miterLimit) ==
  IF i > Len(poly) THEN <<>>
  ELSE RawAt(poly, i, offset, miterLimit)
       \o RawFrom(poly, i + 1, offset, miterLimit)

\* shrink: the polygon normalised to CCW
ShrinkPoly(vs) ==
  IF RGt(signedArea(vs), Zero) THEN vs ELSE Reverse(vs)

\* The arrays of a call.  vertices is the caller's array; poly is
\* vertices.map((v) => v.clone()), a new array of new points, and
\* poly.reverse() works in place on the array that poly refers to.  (shrink
\* and its helpers assign to no field of a point: points are values here.)
VerticesRef == 1
AliasVertices(heap, ref) == [heap |-> heap, ref |-> ref]
CloneVertices(heap, ref) == [heap |-> Append(heap, heap[ref]), ref |-> Len(heap) + 1]
ReverseInPlace(heap, ref) == [heap EXCEPT ![ref] = Reverse(@)]
\* the heap and poly when steps 1 and 2 begin, or where an early return
\* leaves them
PolyOf(heap) ==
  IF Len(heap[VerticesRef]) < 3 THEN [heap |-> heap, ref |-> 0]
  ELSE CloneVertices(heap, VerticesRef)
NormalizedPoly(c) ==
  IF c.ref = 0 \/ AbsBelowEps(signedArea(c.heap[c.ref]), 8)
       \/ RGt(signedArea(c.heap[c.ref]), Zero)
    THEN c
  ELSE [c EXCEPT !.heap = ReverseInPlace(c.heap, c.ref)]

\* shrink step 5: escaped points go to the nearest boundary point
Clamp(result, poly) ==
  [i \in 1..Len(result) |->
     IF pointInPolygon(result[i], poly) THEN result[i]
     ELSE closestPointOnPolygon(result[i], poly)]

\* the polygons handed to shrink: simple polygons of 3..MaxPolyLen pool
\* points, in both windings and from every starting vertex, all of whose
\* edges have integer length (so that each edge normal is rational)
InsetPool ==
  {IPt(0, 0), IPt(1, 0), IPt(4, 0), IPt(5, 0), IPt(8, 0), IPt(5, 2), IPt(4, 3),
   IPt(0, 3), IPt(0, 4), IPt(4, 4), IPt(8, 6)}
MaxPolyLen == 4
InsetOffsets == {<<1, 2>>, <<1, 1>>, <<3, 2>>, <<2, 1>>, <<3, 1>>, <<4, 1>>}
InsetMiterLimits == {<<4, 1>>, <<5, 2>>}

IntegerEdges(poly) ==
  \A i \in 1..Len(poly) :
    RHasSqrt(DistSq(poly[i], poly[Wrap(i, Len(poly))]))
IsSimplePolygon(poly) ==
  LET n == Len(poly)
  IN  /\ \A i, j \in 1..n : i # j => poly[i] # poly[j]
      /\ signedArea(poly) # Zero
      /\ \A i \in 1..n :
           ~OnSegment(poly[i], poly[Wrap(i, n)], poly[Wrap(Wrap(i, n), n)])
           /\ ~OnSegment(poly[Wrap(i, n)], poly[Wrap(Wrap(i, n), n)], poly[i])
      /\ \A i, j \in 1..n :
           (i < j /\ Wrap(i, n) # j /\ Wrap(j, n) # i) =>
             ~SegmentsTouch(poly[i], poly[Wrap(i, n)], poly[j], poly[Wrap(j, n)])
InsetPolygons(n) ==
  {poly \in [1..n -> InsetPool] : IntegerEdges(poly) /\ IsSimplePolygon(poly)}

InsetIdle ==
  /\ insetCall = Null /\ insetPc = "idle" /\ insetWork = <<>>
  /\ insetResult = Null
  /\ insetHeap = <<>> /\ insetPoly = 0 /\ insetEarlier = Null

\* shrink, steps 1 and 2: the early returns and the raw offset polygon
ShrinkEnter(heap, offset, miterLimit) ==
  \E c \in {NormalizedPoly(PolyOf(heap))} :
    LET vs == heap[VerticesRef]
        area == signedArea(vs)
        raw == RawFrom(c.heap[c.ref], 1, offset, miterLimit)
    IN  /\ insetCall' = [kind |-> "shrink", vertices |-> vs,
                         offset |-> offset, miterLimit |-> miterLimit]
        /\ insetHeap' = c.heap
        /\ insetPoly' = c.ref
        /\ IF Len(vs) < 3 \/ AbsBelowEps(area, 8) \/ Len(raw) < 3
             THEN insetPc' = "returned" /\ insetWork' = <<>>
             ELSE insetPc' = "resolve" /\ insetWork' = raw
ShrinkBegin ==
  /\ insetPc = "idle"
  /\ \E n \in 3..MaxPolyLen : \E vs \in InsetPolygons(n),
        offset \in InsetOffsets, miterLimit \in InsetMiterLimits :
       ShrinkEnter(<<vs>>, offset, miterLimit)
  /\ insetResult' = Null
  /\ UNCHANGED insetEarlier

\* the caller calls shrink once more with the same array, as it now is, and
\* the same offset and miter limit
ShrinkAgain ==
  /\ insetPc = "returned"
  /\ insetEarlier = Null
  /\ ShrinkEnter(<<insetHeap[VerticesRef]>>, insetCall.offset, insetCall.miterLimit)
  /\ insetEarlier' = [call |-> insetCall, result |-> insetResult]
  /\ insetResult' = Null

\* shrink, steps 3 and 4: self-intersections resolved, winding and size
\* validated
ShrinkResolve ==
  /\ insetPc = "resolve"
  /\ LET result == resolveSelfIntersections(insetWork, 0)
         absOrigArea == RAbs(signedArea(insetCall.vertices))
         newArea == signedArea(result.pts)
     IN  IF result = Null \/ Len(result.pts) < 3
           THEN insetPc' = "returned" /\ insetWork' = <<>>
         ELSE IF RLe(newArea, Zero) \/ RGe(newArea, absOrigArea)
           THEN insetPc' = "returned" /\ insetWork' = <<>>
         ELSE insetPc' = "clamp" /\ insetWork' = result.pts
  /\ UNCHANGED <<insetCall, insetResult, insetHeap, insetPoly, insetEarlier>>

\* shrink, step 5: escaped points clamped, the input's winding restored, the
\* polygon returned
ShrinkClamp ==
  /\ insetPc = "clamp"
  /\ LET poly == insetHeap[insetPoly]
         ccw == RGt(signedArea(insetCall.vertices), Zero)
         result == Clamp(insetWork, poly)
     IN  insetResult' = [kind |-> "poly",
                         pts |-> IF ccw THEN result ELSE Reverse(result)]
  /\ insetPc' = "returned"
  /\ UNCHANGED <<insetCall, insetWork, insetHeap, insetPoly, insetEarlier>>

InsetNext ==
  \/ ShrinkBegin
  \/ ShrinkAgain
  \/ ShrinkResolve
  \/ ShrinkClamp

\* reference measures for the claims about shrink
RECURSIVE PerimeterFrom(_, _)
PerimeterFrom(poly, i) ==
  IF i > Len(poly) THEN Zero
  ELSE RAdd(RSqrt(DistSq(poly[i], poly[Wrap(i, Len(poly))])),
            PerimeterFrom(poly, i + 1))
Perimeter(poly) == PerimeterFrom(poly, 1)
\* twice the area over the perimeter: no inset at or beyond it can exist
FeasibleLimit(poly) ==
  RDiv(RMul(R(2), RAbs(signedArea(poly))), Perimeter(poly))
ShrinkReturned == insetPc = "returned"
ShrinkReturnedPolygon == insetPc = "returned" /\ insetResult # Null

\* C4: shrink(P, offset) returns null whenever offset >= 2 * area(P) /
\* perimeter(P).
C4_InfeasibleOffsetRejected ==
  (ShrinkReturned
     /\ RGe(insetCall.offset, FeasibleLimit(insetCall.vertices)))
    => insetResult = Null

\* C5: every polygon shrink returns for offset > 0, taken as returned (after
\* the clamp), has 0 < |area| < |area(P)|.
C5_ReturnedAreaSmaller ==
  (ShrinkReturnedPolygon /\ RGt(insetCall.offset, Zero))
    => /\ RGt(RAbs(signedArea(insetResult.pts)), Zero)
       /\ RLt(RAbs(signedArea(insetResult.pts)),
              RAbs(signedArea(insetCall.vertices)))

\* C6: every polygon shrink returns has the winding (sign of the signed
\* area) of the input polygon.
C6_WindingPreserved ==
  ShrinkReturnedPolygon
    => RSign(signedArea(insetResult.pts))
         = RSign(signedArea(insetCall.vertices))

\* C5 and C6 for the offsets below the feasibility limit only
C5_FeasibleAreaSmaller ==
  (ShrinkReturnedPolygon
     /\ RLt(insetCall.offset, FeasibleLimit(insetCall.vertices)))
    => C5_ReturnedAreaSmaller
C6_FeasibleWindingPreserved ==
  (ShrinkReturnedPolygon
     /\ RLt(insetCall.offset, FeasibleLimit(insetCall.vertices)))
    => C6_WindingPreserved

\* C11: shrink is a pure function: while it runs and after it has returned
\* the caller's vertex array holds the points it held at the call, and a
\* second call with the same array, offset and miter limit gets equal
\* arguments and returns an equal result.
C11_ShrinkIsPure ==
  /\ insetPc # "idle" => insetHeap[VerticesRef] = insetCall.vertices
  /\ insetEarlier # Null =>
       /\ insetCall = insetEarlier.call
       /\ ShrinkReturned => insetResult = insetEarlier.result
\* a clockwise polygon (poly is reversed) shrunk twice to a polygon
C11_ShrunkTwice ==
  /\ insetEarlier # Null
  /\ ShrinkReturnedPolygon
  /\ RLt(signedArea(insetCall.vertices), Zero)
  /\ insetHeap[insetPoly] = Reverse(insetCall.vertices)

(***************************************************************************)
(* The two self-intersection resolvers, called on their own:               *)
(* PolygonInset.resolveSelfIntersections (utils.js) and                    *)
(* cleanSelfIntersections (graph.js), one pass of the outer loop per step. *)
(***************************************************************************)
VARIABLES
  resolveCall,    \* [fn, poly]: the routine called and its argument, or Null
  resolvePc,      \* "idle", "loop" or "returned"
  resolvePts,     \* pts: the working polygon
  resolveIter,    \* passes that have replaced pts: iter, and the maxIter used
  resolveResult,  \* what the routine returned: Null or [kind |-> "poly", pts]
  resolveFirst    \* the call before this one and what it returned, or Null

resolveVars ==
  <<resolveCall, resolvePc, resolvePts, resolveIter, resolveResult, resolveFirst>>

\* graph.js: signedArea2D and segIntersect2D
signedArea2D(pts) == RMul(SignedAreaSum(pts, 1), Half)
segIntersect2D(a, b, c, d) ==
  LET abx == RSub(b.x, a.x)
      aby == RSub(b.y, a.y)
      cdx == RSub(d.x, c.x)
      cdy == RSub(d.y, c.y)
      denom == RSub(RMul(abx, cdy), RMul(aby, cdx))
      t == RDiv(RSub(RMul(RSub(c.x, a.x), cdy),
                     RMul(RSub(c.y, a.y), cdx)), denom)
      u == RDiv(RSub(RMul(RSub(c.x, a.x), aby),
                     RMul(RSub(c.y, a.y), abx)), denom)
      eps == Eps(6)
  IN  IF AbsBelowEps(denom, 12) THEN Null
      ELSE IF RGt(t, eps) /\ RLt(t, RSub(One, eps))
              /\ RGt(u, eps) /\ RLt(u, RSub(One, eps))
        THEN [kind |-> "hit",
              point |-> Pt(RAdd(a.x, RMul(t, abx)), RAdd(a.y, RMul(t, aby)))]
      ELSE Null

\* cleanSelfIntersections, one pass of its while loop: the pairs (i, j),
\* 0-based, that it tests, and the loop of larger absolute area that replaces
\* pts at the first crossing
CleanPairs(len) ==
  {p \in (0..(len - 1)) \X (0..(len - 1)) :
     p[2] >= p[1] + 2 /\ ~(p[1] = 0 /\ p[2] = len - 1)}
CleanCutAt(pts, p) ==
  segIntersect2D(At(pts, p[1]), At(pts, (p[1] + 1) % Len(pts)),
                 At(pts, p[2]), At(pts, (p[2] + 1) % Len(pts)))
KeepLarger(loop1, loop2) ==
  IF RGe(RAbs(signedArea2D(loop1)), RAbs(signedArea2D(loop2)))
    THEN loop1 ELSE loop2
CleanSplitAt(pts, first, hit) ==
  KeepLarger(SubSeq(pts, 1, first[1] + 1) \o <<hit>>
               \o SubSeq(pts, first[2] + 2, Len(pts)),
             <<hit>> \o SubSeq(pts, first[1] + 2, first[2] + 1))
CleanPassOn(pts, hits) ==
  IF hits = {} THEN [kind |-> "poly", pts |-> pts]
  ELSE [kind |-> "cut",
        pts |-> CleanSplitAt(pts, FirstHit(hits),
                             CleanCutAt(pts, FirstHit(hits)).point)]
CleanPass(pts) ==
  IF Len(pts) < 3 THEN Null
  ELSE CleanPassOn(pts, {p \in CleanPairs(Len(pts)) : CleanCutAt(pts, p) # Null})

\* cleanSelfIntersections, after the loop: a point within 1e-4 of the one
\* kept before it is dropped, and fewer than 3 points give null
RECURSIVE Cleaned(_, _, _)
Cleaned(pts, i, cleaned) ==
  IF i > Len(pts) THEN cleaned
  ELSE IF RGt(DistSq(pts[i], cleaned[Len(cleaned)]), Eps(8))
    THEN Cleaned(pts, i + 1, Append(cleaned, pts[i]))
  ELSE Cleaned(pts, i + 1, cleaned)
CleanReturn(pts) ==
  LET cleaned == Cleaned(pts, 2, <<pts[1]>>)
  IN  IF Len(cleaned) >= 3 THEN [kind |-> "poly", pts |-> cleaned] ELSE Null

\* the polygons handed to the resolvers: every sequence of 3 to MaxResolveLen
\* points of a pool, and one polygon of twelve vertices that winds around
\* itself
ResolvePool == {IPt(0, 0), IPt(4, 0), IPt(4, 4), IPt(0, 4), IPt(3, 1)}
MaxResolveLen == 5
CoiledPolygon ==
  <<IPt(0 - 2, 4), IPt(0 - 2, 0 - 5), IPt(0 - 5, 0 - 5), IPt(1, 0 - 4),
    IPt(0 - 4, 0 - 4), IPt(2, 5), IPt(4, 0 - 3), IPt(1, 4), IPt(4, 0 - 5),
    IPt(2, 3), IPt(0 - 3, 3), IPt(0 - 3, 0)>>
ResolveInputs ==
  UNION {[1..n -> ResolvePool] : n \in 3..MaxResolveLen} \cup {CoiledPolygon}
Resolvers == {"resolveSelfIntersections", "cleanSelfIntersections"}

ResolveIdle ==
  /\ resolveCall = Null /\ resolvePc = "idle" /\ resolvePts = <<>>
  /\ resolveIter = 0 /\ resolveResult = Null /\ resolveFirst = Null

\* the call: pts = [...poly] (utils.js), pts = points (graph.js, which never
\* writes to the array)
ResolveEnter(fn, poly) ==
  /\ resolveCall' = [fn |-> fn, poly |-> poly]
  /\ resolvePts' = poly
  /\ resolveIter' = 0
  /\ resolveResult' = Null
  /\ resolvePc' = "loop"
ResolveBegin ==
  /\ resolvePc = "idle"
  /\ \E fn \in Resolvers : \E poly \in ResolveInputs : ResolveEnter(fn, poly)
  /\ UNCHANGED resolveFirst
\* the same routine called on what it has returned
ResolveAgain ==
  /\ resolvePc = "returned"
  /\ resolveFirst = Null
  /\ resolveResult # Null
  /\ ResolveEnter(resolveCall.fn, resolveResult.pts)
  /\ resolveFirst' = [call |-> resolveCall, result |-> resolveResult]

ResolveReturns(result) ==
  /\ resolveResult' = result
  /\ resolvePc' = "returned"
  /\ UNCHANGED <<resolveCall, resolvePts, resolveIter, resolveFirst>>
ResolveRepairs(pts) ==
  /\ resolvePts' = pts
  /\ resolveIter' = resolveIter + 1
  /\ UNCHANGED <<resolveCall, resolvePc, resolveResult, resolveFirst>>

\* resolveSelfIntersections: the loop test iter < pts.length * 2 and one pass
ResolveLoop ==
  /\ resolvePc = "loop"
  /\ resolveCall.fn = "resolveSelfIntersections"
  /\ IF resolveIter >= Len(resolvePts) * 2
       THEN ResolveReturns([kind |-> "poly", pts |-> resolvePts])
       ELSE \E pass \in {ResolvePass(resolvePts)} :
              IF pass = Null THEN ResolveReturns(Null)
              ELSE IF pass.kind = "cut" THEN ResolveRepairs(pass.pts)
              ELSE ResolveReturns(pass)

\* cleanSelfIntersections: the loop test maxIter-- > 0, with maxIter twice the
\* length of the argument, and one pass
CleanLoop ==
  /\ resolvePc = "loop"
  /\ resolveCall.fn = "cleanSelfIntersections"
  /\ IF resolveIter >= Len(resolveCall.poly) * 2
       THEN ResolveReturns(CleanReturn(resolvePts))
       ELSE \E pass \in {CleanPass(resolvePts)} :
              IF pass = Null THEN ResolveReturns(Null)
              ELSE IF pass.kind = "cut" THEN ResolveRepairs(pass.pts)
              ELSE ResolveReturns(CleanReturn(pass.pts))

ResolveNext == ResolveBegin \/ ResolveAgain \/ ResolveLoop \/ CleanLoop

(***************************************************************************)
(* The growth graph (graph.js).  The module keeps two lists, lines and     *)
(* nodes, and six options.  Positions are the (x, z) components of the     *)
(* code's vectors.  Math.random() is an input of each tick.  The seeds'    *)
(* directions are the four axis directions, a split turns by a right angle *)
(* (which lies between minAngle and maxAngle) and a twist turns by 0 (the  *)
(* lower end of Maf.map(-1, 1, 0, 0.02 pi, n)): these are the outcomes     *)
(* that keep every coordinate rational.                                    *)
(***************************************************************************)
VARIABLES
  lines,       \* the module's lines array
  nodes,       \* the module's nodes array
  options,     \* minDistance, minTwistDistance, probability
  graphCall,   \* the exported function called last, with its arguments
  events,      \* what the lines did during the last update()
  seeded,      \* the start() calls of the episode: where, and the directions
  nSplits,     \* how often a line has split in the episode
  nTicks       \* the ticks of the episode in which a line was active

graphVars == <<lines, nodes, options, graphCall, events, seeded, nSplits, nTicks>>

\* lengths are counted in steps: the unit of the model is the code's dt = 0.1,
\* so that the radius 10 is 100 and a distance option 1 is 10
dt == One
radius == R(100)
\* endNode of a line that is not closed (null in the code)
NoNode == 0 - 1

\* Vector3.normalize: the zero vector stays as it is
normalize(v) ==
  IF Dot(v, v) = Zero THEN v ELSE PScale(v, RInv(RSqrt(Dot(v, v))))

\* Vector3.applyAxisAngle(up, s * pi / 2) and (up, s * pi / 2 + pi)
QuarterTurn(v, s) ==
  IF s = 1 THEN Pt(v.y, RNeg(v.x)) ELSE Pt(RNeg(v.y), v.x)
Opposite(v) == Pt(RNeg(v.x), RNeg(v.y))

\* new Line(startNode, direction) while the lines array has id entries
Line(id, startNode, direction, nds) ==
  [id |-> id, startNode |-> startNode, endNode |-> NoNode,
   start |-> At(nds, startNode), end |-> At(nds, startNode),
   direction |-> PScale(normalize(direction), dt), active |-> TRUE,
   stepsSinceLastSplit |-> 0, stepsSinceLastTwist |-> 0]

\* Line.close and Line.restart
closeStillActive(line, node, nds) ==
  [line EXCEPT !.endNode = node, !.end = At(nds, node)]
close(line, node, nds) ==
  [line EXCEPT !.endNode = node, !.end = At(nds, node), !.active = FALSE]
restart(line, node, nds) ==
  [line EXCEPT !.startNode = node, !.start = At(nds, node), !.end = At(nds, node)]

\* lines[id] = line
SetLine(ls, line) == [ls EXCEPT ![line.id + 1] = line]

\* Line.intersects: the lines that the segment start-end of me crosses, and
\* the first entry of the list sorted by distance from me.start (the sort is
\* stable, so of two hits at the same distance the earlier line comes first)
HitOf(me, line) ==
  getSegmentIntersection(me.start, me.end, line.start, line.end, FALSE)
\* (two segments whose bounding boxes lie apart have ua or ub outside [0, 1];
\* for them the parameters are not computed)
Apart(a1, a2, b1, b2) ==
  RLt(RMax(a1, a2), RMin(b1, b2)) \/ RGt(RMin(a1, a2), RMax(b1, b2))
BoxesApart(me, line) ==
  \/ Apart(me.start.x, me.end.x, line.start.x, line.end.x)
  \/ Apart(me.start.y, me.end.y, line.start.y, line.end.y)
intersects(ls, me) ==
  {k \in 1..Len(ls) :
     ls[k].id # me.id /\ ~BoxesApart(me, ls[k]) /\ HitOf(me, ls[k]) # Null}
HitDistance(ls, me, k) == DistSq(me.start, HitOf(me, ls[k]).point)
HitBefore(da, db, a, b) == RLt(da, db) \/ (da = db /\ a <= b)
FarthestHit(ls, me, ids) ==
  CHOOSE a \in ids : \A b \in ids :
    HitBefore(HitDistance(ls, me, b), HitDistance(ls, me, a), b, a)
NearestHit(ls, me, ids) ==
  CHOOSE a \in ids : \A b \in ids :
    HitBefore(HitDistance(ls, me, a), HitDistance(ls, me, b), a, b)

\* The functions below work on g = [lines, nodes, events, splits], the two
\* arrays while an update() is running and what has happened in it.
Happened(g, type, id) == Append(g.events, [type |-> type, id |-> id])

\* grow, the intersection branch: me ends in a new node at the nearest hit,
\* and the line it ran into is cut in two there
CutOther(g, me, other, point, end, nds) ==
  [g EXCEPT
     !.nodes = nds,
     !.lines = Append(SetLine(SetLine(g.lines, close(me, end, nds)),
                              [other EXCEPT !.startNode = end, !.start = point]),
                      close(Line(Len(g.lines), other.startNode,
                                 PSub(other.end, other.start), nds), end, nds)),
     !.events = Happened(g, "hit", me.id)]
HitBranch(g, me, k) ==
  CutOther(g, me, At(g.lines, g.lines[k].id), HitOf(me, g.lines[k]).point,
           Len(g.nodes), Append(g.nodes, HitOf(me, g.lines[k]).point))

\* grow, the radius branch: me ends in a new node at its tip
RadiusBranch(g, me) ==
  [g EXCEPT
     !.nodes = Append(g.nodes, me.end),
     !.lines = SetLine(g.lines, close(me, Len(g.nodes), Append(g.nodes, me.end))),
     !.events = Happened(g, "radius", me.id)]

\* Line.twist: the part grown so far becomes a closed line of its own and me
\* goes on from its tip
twist(g, me) ==
  [g EXCEPT
     !.nodes = Append(g.nodes, me.end),
     !.lines = Append(SetLine(g.lines,
                        [restart(me, Len(g.nodes), Append(g.nodes, me.end))
                           EXCEPT !.stepsSinceLastTwist = 0]),
                      close(Line(Len(g.lines), me.startNode, me.direction, g.nodes),
                            Len(g.nodes), Append(g.nodes, me.end))),
     !.events = Happened(g, "twist", me.id)]

\* (the new lines as they would be if both were made before either is pushed)
ChildrenBeforePush(id, node, dir, second, nds) ==
  IF second THEN <<Line(id, node, dir, nds), Line(id, node, Opposite(dir), nds)>>
  ELSE <<Line(id, node, dir, nds)>>
\* Line.split: as twist, and one or two new lines leave the tip sideways
Children(id, node, dir, second, nds) ==
  IF second THEN <<Line(id, node, dir, nds), Line(id + 1, node, Opposite(dir), nds)>>
  ELSE <<Line(id, node, dir, nds)>>
split(g, me, s, second) ==
  [g EXCEPT
     !.nodes = Append(g.nodes, me.end),
     !.lines = Append(SetLine(g.lines,
                        [restart(me, Len(g.nodes), Append(g.nodes, me.end))
                           EXCEPT !.stepsSinceLastSplit = 0]),
                      close(Line(Len(g.lines), me.startNode, me.direction, g.nodes),
                            Len(g.nodes), Append(g.nodes, me.end)))
                \o Children(Len(g.lines) + 1, Len(g.nodes),
                            QuarterTurn(me.direction, s), second,
                            Append(g.nodes, me.end)),
     !.events = Happened(g, "split", me.id),
     !.splits = @ + 1]

\* steps * dt > distance; no number is greater than Infinity
Infinity == <<1, 0>>
Beyond(steps, distance) == distance # Infinity /\ RGt(RMul(R(steps), dt), distance)

\* Line.grow of the snapshot variant after the step forward; d is what
\* Math.random() returns to this line: d.u in the split test, d.s and
\* d.second in split()
GrowOn(g, o, me, ids, d) ==
  IF ids # {} THEN HitBranch(g, me, NearestHit(g.lines, me, ids))
  ELSE IF RGt(Dot(me.end, me.end), RMul(radius, radius)) THEN RadiusBranch(g, me)
  ELSE IF Beyond(me.stepsSinceLastSplit, o.minDistance) /\ RLt(d.u, o.probability)
    THEN split(g, me, d.s, d.second)
  ELSE IF Beyond(me.stepsSinceLastTwist, o.minTwistDistance) THEN twist(g, me)
  ELSE [g EXCEPT !.lines = SetLine(g.lines, me)]

Stepped(line) ==
  [line EXCEPT !.stepsSinceLastSplit = @ + 1, !.stepsSinceLastTwist = @ + 1,
               !.end = PAdd(line.end, line.direction)]
GrowStepped(g, o, me, d) ==
  CHOOSE r \in {GrowOn(g, o, m, ids, d) : m \in {me}, ids \in {intersects(g.lines, me)}} : TRUE
grow(g, o, j, d) ==
  IF ~At(g.lines, j).active THEN g ELSE GrowStepped(g, o, Stepped(At(g.lines, j)), d)

\* what Math.random() returns to line j in a tick whose draws are dr
DrawOf(dr, j) ==
  [u |-> IF j = dr.who THEN dr.uWho ELSE dr.uRest, s |-> dr.s, second |-> dr.second]

\* update(1) of the snapshot variant: the lines present when the tick begins
\* grow once each, in the order of the array
\* (grow returns at once for a line that is not active: the loops go from one
\* active line to the next)
NextActive(ls, j) ==
  IF \E k \in j..(Len(ls) - 1) : At(ls, k).active
    THEN CHOOSE k \in j..(Len(ls) - 1) :
           At(ls, k).active /\ \A m \in j..(k - 1) : ~At(ls, m).active
  ELSE Len(ls)
RECURSIVE GrowCount(_, _, _, _, _)
GrowCount(g, o, dr, j, count) ==
  IF j >= count THEN g
  ELSE CHOOSE r \in {GrowCount(h, o, dr, NextActive(h.lines, j + 1), count) :
                       h \in {grow(g, o, j, DrawOf(dr, j))}} : TRUE
update(g, o, dr) == GrowCount(g, o, dr, NextActive(g.lines, 0), Len(g.lines))

(***************************************************************************)
(* The spatial-grid variant of the growth graph (graph.js 1-627)           *)
(***************************************************************************)
\* SpatialGrid: cells of side 0.5; Math.floor(a / cellSize)
cellSize == R(5)
CellOf(a) == (a[1] * cellSize[2]) \div (a[2] * cellSize[1])
\* the cells ix0..ix1 x iz0..iz1 that insert() and querySegment() run through
CellRange(start, end) ==
  [ix0 |-> CellOf(RMin(start.x, end.x)), ix1 |-> CellOf(RMax(start.x, end.x)),
   iz0 |-> CellOf(RMin(start.y, end.y)), iz1 |-> CellOf(RMax(start.y, end.y))]
\* grid.build(lines): for every line its id and the cells that hold the id
build(ls) ==
  [k \in 1..Len(ls) |-> [id |-> ls[k].id, cells |-> CellRange(ls[k].start, ls[k].end)]]
RangesMeet(a, b) ==
  a.ix0 <= b.ix1 /\ b.ix0 <= a.ix1 /\ a.iz0 <= b.iz1 /\ b.iz0 <= a.iz1
\* grid.querySegment(start, end): the ids found in the cells of the segment
QueryCells(grid, cells) ==
  {grid[k].id : k \in {i \in 1..Len(grid) : RangesMeet(grid[i].cells, cells)}}
querySegment(grid, start, end) == QueryCells(grid, CellRange(start, end))

\* Line.intersects(grid): the candidates of the grid are tested when there is
\* one, all lines when there is none; the result is the set of the positions
\* in ls of the lines hit
TestedOf(ls, me, candidateIds) ==
  IF candidateIds # {} THEN {id + 1 : id \in candidateIds \ {me.id}}
  ELSE {k \in 1..Len(ls) : ls[k].id # me.id}
HitsAmong(ls, me, tested) == {k \in tested : HitOf(me, ls[k]) # Null}
GridIntersects(ls, grid, me) ==
  HitsAmong(ls, me, TestedOf(ls, me, querySegment(grid, me.start, me.end)))

\* Line.intersects(null): the scan of all lines
FullScan(ls, me) == HitsAmong(ls, me, TestedOf(ls, me, {}))

\* grow, the intersection branch of the grid variant: the closed piece of the
\* line run into is made with that line's direction (the same vector object;
\* no direction changes in the runs followed here)
GridCutOther(g, me, other, point, end, nds) ==
  [g EXCEPT
     !.nodes = nds,
     !.lines = Append(SetLine(SetLine(g.lines, close(me, end, nds)),
                              [other EXCEPT !.startNode = end, !.start = point]),
                      close(Line(Len(g.lines), other.startNode, other.direction, nds),
                            end, nds)),
     !.events = Happened(g, "hit", me.id)]
GridHitBranch(g, me, k) ==
  GridCutOther(g, me, At(g.lines, g.lines[k].id), HitOf(me, g.lines[k]).point,
               Len(g.nodes), Append(g.nodes, HitOf(me, g.lines[k]).point))

\* Line.split of the grid variant: one new line leaves the tip
GridSplit(g, me, s) == split(g, me, s, FALSE)

\* Line.grow(grid) of the grid variant after the step forward: the split test
\* and then, whether or not the line has split, the twist test; there is no
\* radius test
GridTwistTest(g, o, id) ==
  IF Beyond(At(g.lines, id).stepsSinceLastTwist, o.minTwistDistance)
    THEN twist(g, At(g.lines, id))
  ELSE g
GridSplitTest(g, o, me, d) ==
  IF Beyond(me.stepsSinceLastSplit, o.minDistance) /\ RGt(d.u, o.probability)
    THEN GridSplit(g, me, d.s)
  ELSE [g EXCEPT !.lines = SetLine(g.lines, me)]
GridGrowOn(g, o, me, ids, d) ==
  IF ids # {} THEN GridHitBranch(g, me, NearestHit(g.lines, me, ids))
  ELSE CHOOSE r \in {GridTwistTest(h, o, me.id) : h \in {GridSplitTest(g, o, me, d)}} : TRUE
GridGrowStepped(g, o, grid, me, d) ==
  CHOOSE r \in {GridGrowOn(g, o, m, ids, d) :
                  m \in {me}, ids \in {GridIntersects(g.lines, grid, me)}} : TRUE
GridGrow(g, o, grid, j, d) ==
  IF ~At(g.lines, j).active THEN g
  ELSE GridGrowStepped(g, o, grid, Stepped(At(g.lines, j)), d)

\* update(1) of the grid variant: the grid is built once, and every line of
\* the array grows, those appended during the tick included
RECURSIVE GrowAll(_, _, _, _, _)
GrowAll(g, o, grid, dr, j) ==
  IF j >= Len(g.lines) THEN g
  ELSE CHOOSE r \in {GrowAll(h, o, grid, dr, NextActive(h.lines, j + 1)) :
                       h \in {GridGrow(g, o, grid, j, DrawOf(dr, j))}} : TRUE
GridUpdateTick(g, o, dr) ==
  CHOOSE r \in {GrowAll(g, o, grid, dr, NextActive(g.lines, 0)) :
                  grid \in {build(g.lines)}} : TRUE

\* areActiveLines()
areActiveLines == \E k \in 1..Len(lines) : lines[k].active

\* the state of the module after it is loaded
DefaultOptions ==
  [minDistance |-> R(10), minTwistDistance |-> R(10), probability |-> <<199, 200>>]
GraphIdle ==
  /\ lines = <<>>
  /\ nodes = <<>>
  /\ options = DefaultOptions
  /\ graphCall = [op |-> "none"]
  /\ events = <<>>
  /\ seeded = <<>>
  /\ nSplits = 0
  /\ nTicks = 0

\* bounds and inputs of the runs
MaxLines == 1
MaxStarts == 3
MaxSplits == 1
MaxTicks == 8
\* the ticks of an episode in which lines may split
SplitTicks == {2, 6, 11}
Seeds == {IPt(96, 0 - 10), IPt(98, 0 - 12), Pt(<<197, 2>>, R(0 - 12))}
\* getRandomDirection() for the numLines lines of a start(): the first line
\* runs along an axis, each further one a quarter turn from the one before
FirstDirections == {IPt(1, 0), IPt(0 - 1, 0), IPt(0, 1)}
RECURSIVE Turned(_, _)
Turned(v, k) == IF k = 0 THEN v ELSE Turned(QuarterTurn(v, 1), k - 1)
SeedDirections ==
  {[i \in 1..n |-> Turned(a, i - 1)] : a \in FirstDirections, n \in 1..MaxLines}
\* the values of Math.random() in the split test
LowDraw == <<1, 4>>
HighDraw == <<999, 1000>>
AllDraws == {LowDraw, HighDraw}
\* the options that reset() is called with: those of the sub-graphs of
\* main.js (0.1, 1000, 0.5), and values of the sliders (0.5, 0.5, 0)
SubGraphOptions ==
  [minDistance |-> R(1), minTwistDistance |-> R(10000), probability |-> <<1, 2>>]
SliderOptions ==
  [minDistance |-> R(5), minTwistDistance |-> R(5), probability |-> Zero]
OptionSets == {SubGraphOptions, SliderOptions}
NoLine == 0 - 1

\* start() is called before the first tick of an episode or between
\* episodes, once for a seed point
MayStart == Len(seeded) < MaxStarts /\ (nTicks = 0 \/ ~areActiveLines)
NotSeeded(p) == \A i \in 1..Len(seeded) : seeded[i].at # p

\* start(x, y, numLines) of the snapshot variant
SeedLines(id, node, dirs, nds) ==
  [i \in 1..Len(dirs) |-> Line(id + i - 1, node, dirs[i], nds)]
start ==
  /\ MayStart
  /\ \E p \in Seeds, dirs \in SeedDirections :
       /\ NotSeeded(p)
       /\ nodes' = Append(nodes, p)
       /\ lines' = lines \o SeedLines(Len(lines), Len(nodes), dirs, Append(nodes, p))
       /\ graphCall' = [op |-> "start", at |-> p, numLines |-> Len(dirs)]
       /\ seeded' = Append(seeded, [at |-> p, dirs |-> dirs])
  /\ events' = <<>>
  /\ UNCHANGED <<options, nSplits, nTicks>>

\* The draws of one tick: all lines draw the same value in the split test, or
\* one line draws one value and the others the other.  Runs are followed in
\* which lines split in the ticks SplitTicks only, MaxSplits times at most.
CanSplit ==
  {k - 1 : k \in {i \in 1..Len(lines) :
                    /\ lines[i].active
                    /\ Beyond(lines[i].stepsSinceLastSplit + 1, options.minDistance)}}
Draws(who, uWho, uRest, s, second) ==
  [who |-> who, uWho |-> uWho, uRest |-> uRest, s |-> s, second |-> second]
SplitsLeft == IF (nTicks + 1) \in SplitTicks THEN MaxSplits - nSplits ELSE 0
TickDraws ==
  (IF CanSplit = {} THEN {Draws(NoLine, LowDraw, LowDraw, 1, FALSE)}
   ELSE {Draws(NoLine, u, u, 1, FALSE) : u \in AllDraws})
    \cup (IF SplitsLeft > 0
            THEN {Draws(w, u, CHOOSE v \in AllDraws : v # u, s, b) :
                    w \in CanSplit, u \in AllDraws, s \in {1, 0 - 1}, b \in BOOLEAN}
            ELSE {})
Growing == [lines |-> lines, nodes |-> nodes, events |-> <<>>, splits |-> 0]

\* update() of the snapshot variant
Update ==
  /\ nTicks < MaxTicks
  /\ \E dr \in TickDraws :
       \E g \in {update(Growing, options, dr)} :
         /\ g.splits <= SplitsLeft
         /\ lines' = g.lines
         /\ nodes' = g.nodes
         /\ events' = g.events
         /\ nSplits' = nSplits + g.splits
  /\ graphCall' = [op |-> "update"]
  /\ nTicks' = IF areActiveLines THEN nTicks + 1 ELSE nTicks
  /\ UNCHANGED <<options, seeded>>

\* reset(options) of the snapshot variant; a new episode begins
reset ==
  /\ \E o \in OptionSets :
       /\ options' = o
       /\ graphCall' = [op |-> "reset", options |-> o]
  /\ lines' = <<>>
  /\ nodes' = <<>>
  /\ events' = <<>>
  /\ seeded' = <<>>
  /\ nSplits' = 0
  /\ nTicks' = 0

GrowthNext == start \/ Update \/ reset

\* addBoundary() of the grid variant: a closed ring of 36 nodes on the circle
\* of the radius, at the angles -10 i degrees, and 36 closed lines of
\* direction zero between them.  The coordinates r cos and r sin are rounded
\* to a tenth (one step).
sides == 36
CosTable == <<100, 98, 94, 87, 77, 64, 50, 34, 17, 0>>
CosStep(i) ==
  IF i % 36 <= 9 THEN CosTable[(i % 36) + 1]
  ELSE IF i % 36 <= 18 THEN 0 - CosTable[19 - (i % 36)]
  ELSE IF i % 36 <= 27 THEN 0 - CosTable[(i % 36) - 17]
  ELSE CosTable[37 - (i % 36)]
SinStep(i) == CosStep(i + 27)
BoundaryVertex(i) == IPt(CosStep(i), 0 - SinStep(i))
BoundaryLine(id, a, b, nds) == close(Line(id, a, Pt(Zero, Zero), nds), b, nds)
RingLines(id, origin, nds) ==
  [i \in 1..sides |-> BoundaryLine(id + i - 1, origin + i - 1, origin + (i % sides), nds)]
addBoundary(g) ==
  [g EXCEPT
     !.nodes = g.nodes \o [i \in 1..sides |-> BoundaryVertex(i - 1)],
     !.lines = g.lines \o RingLines(Len(g.lines), Len(g.nodes),
                                    g.nodes \o [i \in 1..sides |-> BoundaryVertex(i - 1)])]

\* bounds and inputs of the runs of the grid variant
GridMaxTicks == 8
MaxNodes == 100
GridSeeds == {IPt(0, 0), IPt(105, 0 - 10), Pt(<<199, 2>>, <<0 - 31, 2>>)}
\* options with which no line splits or twists: Math.random() > 1 and
\* steps * dt > Infinity are false whatever is drawn and however far a line
\* has grown
StraightOptions ==
  [minDistance |-> R(1), minTwistDistance |-> Infinity, probability |-> One]
GridOptionSets == OptionSets \cup {StraightOptions}

\* start(x, y, numLines) of the grid variant
GridStart ==
  /\ MayStart
  /\ Len(nodes) + sides < MaxNodes
  /\ \E p \in GridSeeds, dirs \in SeedDirections :
       \E b \in {addBoundary(Growing)} :
         /\ NotSeeded(p)
         /\ nodes' = Append(b.nodes, p)
         /\ lines' = b.lines \o SeedLines(Len(b.lines), Len(b.nodes), dirs,
                                          Append(b.nodes, p))
         /\ graphCall' = [op |-> "start", at |-> p, numLines |-> Len(dirs)]
         /\ seeded' = Append(seeded, [at |-> p, dirs |-> dirs])
  /\ events' = <<>>
  /\ UNCHANGED <<options, nSplits, nTicks>>

\* update() of the grid variant
GridUpdate ==
  /\ nTicks < GridMaxTicks
  /\ \E dr \in TickDraws :
       \E g \in {GridUpdateTick(Growing, options, dr)} :
         /\ g.splits <= SplitsLeft
         /\ lines' = g.lines
         /\ nodes' = g.nodes
         /\ events' = g.events
         /\ nSplits' = nSplits + g.splits
  /\ graphCall' = [op |-> "update"]
  /\ nTicks' = IF areActiveLines THEN nTicks + 1 ELSE nTicks
  /\ UNCHANGED <<options, seeded>>

\* reset(options) of the grid variant: the lines array is emptied, the nodes
\* array is not.  It is called before the first tick of an episode.
GridReset ==
  /\ nTicks = 0
  /\ Len(seeded) <= 1
  /\ \E o \in GridOptionSets :
       /\ options' = o
       /\ graphCall' = [op |-> "reset", options |-> o]
  /\ lines' = <<>>
  /\ events' = <<>>
  /\ seeded' = <<>>
  /\ nSplits' = 0
  /\ UNCHANGED <<nodes, nTicks>>

GridNext == GridStart \/ GridUpdate \/ GridReset

(***************************************************************************)
(* The reactive module (signal, ReactiveEffect, effectRAF) and the effect  *)
(* of main.js that builds the city anew.  There is one effect; a signal's  *)
(* subscribers set holds it or is empty.                                   *)
(***************************************************************************)
VARIABLES
  sigValue,        \* the value each signal holds
  subscribers,     \* the signals whose subscribers set holds the effect
  deps,            \* effect.deps: the signals whose subscribers sets it holds
  queued,          \* the queued flag of effectRAF
  frameCallbacks,  \* the callbacks requested for the next animation frame
  graphOptions,    \* what the effect's function read when it ran last
  fnCalls,         \* how often the function ran in the handler that ran last
  arrays,          \* how many arrays have been made for the angle signal
  rxCall           \* the handler that ran last

rxVars == <<sigValue, subscribers, deps, queued, frameCallbacks, graphOptions,
            fnCalls, arrays, rxCall>>

\* params of main.js: the seven signals that randomize() sets, one more that
\* the effect reads and one that it does not read
RandomNumbers == {"boundarySides", "minDistance", "minTwistDistance",
                  "probability", "noiseScale", "greenness"}
Signals == RandomNumbers \cup {"angle", "offset", "showLines"}
\* the signals that the effect's function calls, all of them in every run
Reads == Signals \ {"showLines"}
\* the controls of the gui that the model moves
SliderSignals == {"greenness", "offset", "angle", "showLines"}

\* a number, and an array (every array literal is an object of its own)
Number(n) == [number |-> n]
NewArray(n) == [array |-> n]
defaults == [s \in Signals |-> IF s = "angle" THEN NewArray(0) ELSE Number(1)]
\* Object.is on such values
ObjectIs(a, b) == a = b

MaxArrays == 2
MaxCallbacks == 3

\* The functions below work on r = [value, subscribers, deps, queued,
\* frameCallbacks, graphOptions, fnCalls], the state while a handler runs.

\* ReactiveEffect.cleanup
cleanup(r) == [r EXCEPT !.subscribers = @ \ r.deps, !.deps = {}]
\* the effect's function: each sig() tracks the signal (activeEffect is the
\* effect) and returns its value
fn(r) ==
  [r EXCEPT !.subscribers = @ \cup Reads,
            !.deps = @ \cup Reads,
            !.graphOptions = [s \in Reads |-> r.value[s]],
            !.fnCalls = @ + 1]
\* ReactiveEffect.run
run(r) == fn(cleanup(r))
\* (a scheduler that does not look at queued)
schedulerAlways(r) == [r EXCEPT !.queued = TRUE, !.frameCallbacks = @ + 1]
\* the scheduler of effectRAF
scheduler(r) ==
  IF r.queued THEN r ELSE [r EXCEPT !.queued = TRUE, !.frameCallbacks = @ + 1]
\* trigger(subscribers) of signal s
trigger(r, s) == IF s \in r.subscribers THEN scheduler(r) ELSE r
\* sig.set(newValue)
set(r, s, newValue) ==
  IF ObjectIs(r.value[s], newValue) THEN r
  ELSE trigger([r EXCEPT !.value[s] = newValue], s)

Rx ==
  [value |-> sigValue, subscribers |-> subscribers, deps |-> deps,
   queued |-> queued, frameCallbacks |-> frameCallbacks,
   graphOptions |-> graphOptions, fnCalls |-> 0]
RxBecomes(r) ==
  /\ sigValue' = r.value
  /\ subscribers' = r.subscribers
  /\ deps' = r.deps
  /\ queued' = r.queued
  /\ frameCallbacks' = r.frameCallbacks
  /\ graphOptions' = r.graphOptions
  /\ fnCalls' = r.fnCalls

RxIdle ==
  /\ sigValue = defaults
  /\ subscribers = {}
  /\ deps = {}
  /\ queued = FALSE
  /\ frameCallbacks = 0
  /\ graphOptions = Null
  /\ fnCalls = 0
  /\ arrays = 0
  /\ rxCall = [op |-> "none"]

\* effectRAF(fn): the effect is made and runs at once
effectRAF ==
  /\ graphOptions = Null
  /\ RxBecomes(run(Rx))
  /\ rxCall' = [op |-> "effectRAF"]
  /\ UNCHANGED arrays

\* a control of the gui sets its signal
SliderValues(s) ==
  IF s = "angle"
    THEN (IF arrays < MaxArrays THEN {NewArray(arrays + 1)} ELSE {})
    ELSE {Number(1), Number(2)}
sliderInput ==
  /\ graphOptions # Null
  /\ frameCallbacks < MaxCallbacks
  /\ \E s \in SliderSignals :
       \E v \in SliderValues(s) :
         /\ RxBecomes(set(Rx, s, v))
         /\ arrays' = IF s = "angle" THEN arrays + 1 ELSE arrays
         /\ rxCall' = [op |-> "set", signal |-> s, value |-> v]

\* randomize(): seven set() calls; d is what the random functions return
RandomizeDraws == {[s \in RandomNumbers |-> Number(n)] : n \in {1, 2}}
randomize ==
  /\ graphOptions # Null
  /\ frameCallbacks < MaxCallbacks
  /\ arrays < MaxArrays
  /\ \E d \in RandomizeDraws :
       RxBecomes(
         set(set(set(set(set(set(set(Rx,
           "boundarySides", d["boundarySides"]),
           "minDistance", d["minDistance"]),
           "minTwistDistance", d["minTwistDistance"]),
           "angle", NewArray(arrays + 1)),
           "probability", d["probability"]),
           "noiseScale", d["noiseScale"]),
           "greenness", d["greenness"]))
  /\ arrays' = arrays + 1
  /\ rxCall' = [op |-> "randomize"]

\* an animation frame: the browser calls the callbacks requested before it,
\* each of which clears queued and runs the effect
RECURSIVE FrameCallbacks(_, _)
FrameCallbacks(r, n) ==
  IF n = 0 THEN r
  ELSE FrameCallbacks(run([r EXCEPT !.queued = FALSE]), n - 1)
animationFrame ==
  /\ frameCallbacks > 0
  /\ RxBecomes(FrameCallbacks([Rx EXCEPT !.frameCallbacks = 0], frameCallbacks))
  /\ rxCall' = [op |-> "frame"]
  /\ UNCHANGED arrays

ReactiveNext == effectRAF \/ sliderInput \/ randomize \/ animationFrame

vars == <<isectVars, exVars, insetVars, resolveVars, graphVars, rxVars>>

\* every component before its first call
AllIdle == IsectIdle /\ ExIdle /\ InsetIdle /\ ResolveIdle /\ GraphIdle /\ RxIdle

\* the intersection routines called on lattice segments
SpecIsectInit == AllIdle
SpecIsectNext == IsectNext /\ UNCHANGED <<exVars, insetVars, graphVars, resolveVars, rxVars>>
SpecIsect == SpecIsectInit /\ [][SpecIsectNext]_vars

\* GraphRegionExtractor.solve() on small planar straight-line graphs
SpecExtractInit == AllIdle
SpecExtractNext == ExtractNext /\ UNCHANGED <<isectVars, insetVars, graphVars, resolveVars, rxVars>>
SpecExtract == SpecExtractInit /\ [][SpecExtractNext]_vars

\* PolygonInset.shrink() on small polygons with integer edge lengths
SpecExtractAnyInit == AllIdle
SpecExtractAnyNext == ExtractAnyNext /\ UNCHANGED <<isectVars, insetVars, graphVars, resolveVars, rxVars>>
SpecExtractAny == SpecExtractAnyInit /\ [][SpecExtractAnyNext]_vars

SpecWalkInit == AllIdle
SpecWalkNext == WalkNext /\ UNCHANGED <<isectVars, insetVars, graphVars, resolveVars, rxVars>>
SpecWalk == SpecWalkInit /\ [][SpecWalkNext]_vars

SpecInsetInit == AllIdle
SpecInsetNext == InsetNext /\ UNCHANGED <<isectVars, exVars, graphVars, resolveVars, rxVars>>
SpecInset == SpecInsetInit /\ [][SpecInsetNext]_vars

\* start(), update() and reset() of the snapshot variant of the growth graph
SpecResolveInit == AllIdle
SpecResolveNext == ResolveNext /\ UNCHANGED <<isectVars, exVars, insetVars, graphVars, rxVars>>
SpecResolve == SpecResolveInit /\ [][SpecResolveNext]_vars

SpecGrowthInit == AllIdle
SpecGrowthNext == GrowthNext /\ UNCHANGED <<isectVars, exVars, insetVars, resolveVars, rxVars>>
SpecGrowth == SpecGrowthInit /\ [][SpecGrowthNext]_vars

\* start(), update() and reset() of the spatial-grid variant
SpecGridInit == AllIdle
SpecGridNext == GridNext /\ UNCHANGED <<isectVars, exVars, insetVars, resolveVars, rxVars>>
SpecGrid == SpecGridInit /\ [][SpecGridNext]_vars

\* the effect of main.js, the controls, randomize() and the animation frames;
\* the browser runs a frame whenever a callback has been requested
SpecReactiveInit == AllIdle
SpecReactiveFrame ==
  animationFrame /\ UNCHANGED <<isectVars, exVars, insetVars, resolveVars, graphVars>>
SpecReactiveNext ==
  ReactiveNext /\ UNCHANGED <<isectVars, exVars, insetVars, resolveVars, graphVars>>
SpecReactive ==
  SpecReactiveInit /\ [][SpecReactiveNext]_vars /\ WF_vars(SpecReactiveFrame)

(***************************************************************************)
(* Properties of the growth graph                                          *)
(***************************************************************************)

\* C8: after reset(options) nothing of the previous episode remains: the
\* line list and the node registry are both empty.
C8_ResetDiscardsAll == graphCall.op = "reset" => (lines = <<>> /\ nodes = <<>>)

\* C9: a single line started at the origin with probability = 0 never
\* splits; while it grows its tip is within the radius, and it is closed in
\* the first tick in which the tip is beyond the radius, so that its end lies
\* at a distance d from the origin with radius < d <= radius + one step.
SingleOriginStart ==
  /\ Len(seeded) = 1
  /\ seeded[1].at = IPt(0, 0)
  /\ Len(seeded[1].dirs) = 1
  /\ options.probability = Zero
\* the line that start() has made: the first one after the boundary
StartedLine == At(lines, sides)
WithinRadius(p, r) == RLe(Dot(p, p), RMul(r, r))
C9_NoSplitEndsAtRadius ==
  SingleOriginStart =>
    /\ nSplits = 0
    /\ \A i \in 1..Len(events) : events[i].type # "split"
    /\ IF StartedLine.active THEN WithinRadius(StartedLine.end, radius)
       ELSE /\ ~WithinRadius(StartedLine.end, radius)
            /\ WithinRadius(StartedLine.end, RAdd(radius, dt))

\* C3: repeated update() calls reach a state in which no line is active.
\* Stated on the states of a run: there is never an active line that no
\* update() can close.  Such a line is the only active one, the options rule
\* out that it splits or twists, and every other line lies behind its start,
\* so that the segment from its start to its tip, however long, meets none.
Behind(p, line) == RLt(Dot(PSub(p, line.start), line.direction), Zero)
GrowsForEver(i) ==
  /\ lines[i].active
  /\ lines[i].direction # Pt(Zero, Zero)
  /\ options.probability = One
  /\ options.minTwistDistance = Infinity
  /\ \A k \in 1..Len(lines) :
       k # i => /\ ~lines[k].active
                /\ Behind(lines[k].start, lines[i])
                /\ Behind(lines[k].end, lines[i])
C3_EveryLineCanEnd == \A i \in 1..Len(lines) : ~GrowsForEver(i)

\* C1: whenever no line is active, the lines form a planar straight-line
\* graph: a point that two lines have in common is an endpoint node of both.
LiesOn(p, a, b) ==
  /\ Cross(PSub(p, a), PSub(b, a)) = Zero
  /\ RLe(Dot(PSub(p, a), PSub(p, b)), Zero)
Side(p, a, b) == RSign(Cross(PSub(b, a), PSub(p, a)))
CrossInside(a, b) ==
  /\ Side(a.start, b.start, b.end) * Side(a.end, b.start, b.end) < 0
  /\ Side(b.start, a.start, a.end) * Side(b.end, a.start, a.end) < 0
EndNodes(a) == {a.startNode, a.endNode}
\* an end of a lies on b without being an end node of b
EndTouches(a, b) ==
  \/ LiesOn(a.start, b.start, b.end) /\ a.startNode \notin EndNodes(b)
  \/ LiesOn(a.end, b.start, b.end) /\ a.endNode \notin EndNodes(b)
SameEdge(a, b) == a.start # a.end /\ EndNodes(a) = EndNodes(b)
MeetAtEndNodesOnly(a, b) ==
  ~(CrossInside(a, b) \/ EndTouches(a, b) \/ EndTouches(b, a) \/ SameEdge(a, b))
Planar(ls) ==
  \A i \in 1..Len(ls) : \A j \in (i + 1)..Len(ls) : MeetAtEndNodesOnly(ls[i], ls[j])
C1_FinishedGraphIsPlanar == (lines # <<>> /\ ~areActiveLines) => Planar(lines)

\* C12: in one update() tick only the lines that existed when the tick began
\* are grown: a line made during the tick that is still active afterwards
\* has not moved its tip from its start and has counted no step.
MadeInTick(k) == k > Len(lines)
Unmoved(line) ==
  /\ line.end = line.start
  /\ line.stepsSinceLastSplit = 0
  /\ line.stepsSinceLastTwist = 0
C12_NewLinesWait ==
  [][graphCall'.op = "update" =>
       \A k \in 1..Len(lines') :
         (MadeInTick(k) /\ lines'[k].active) => Unmoved(lines'[k])]_vars
\* C13: in one grow() step only the first applicable of intersection,
\* boundary, split and twist is applied: no line has two events in one tick
\* (it does not split and twist, and a line closed by an intersection or by
\* the boundary does neither).
C13_OneEventPerStep ==
  \A i, j \in 1..Len(events) : i # j => events[i].id # events[j].id
\* C14: within one tick every line's intersection test reads the lines as
\* they were before the tick began: a line that was active then is closed by
\* an intersection in the tick exactly when its tip segment, one step on,
\* crosses a line of the state before the tick.
HitIn(evs, id) ==
  \E i \in 1..Len(evs) : evs[i].type = "hit" /\ evs[i].id = id
FrozenHit(id) == intersects(lines, Stepped(At(lines, id))) # {}
C14_TestsReadFrozenLines ==
  [][graphCall'.op = "update" =>
       \A k \in 1..Len(lines) :
         lines[k].active => (HitIn(events', k - 1) <=> FrozenHit(k - 1))]_vars
\* C15: when the tip segment of a line L crosses other lines, one new node X
\* is made at the crossing nearest to L's start and L is closed at X; only
\* the line M crossed there is cut: one new closed line from M's previous
\* start node to X is appended, and M goes on from X with its direction, its
\* end node and its active flag.  Stated for the ticks whose only event is
\* the intersection of L.
OnlyHitOf(l) ==
  graphCall'.op = "update" /\ events' = <<[type |-> "hit", id |-> l]>>
\* where the stepped L crosses line k, taken over all that k covers in the tick
CrossingWith(l, k) ==
  HitOf(Stepped(At(lines, l)), [lines'[k] EXCEPT !.start = lines[k].start])
ClosedAtNewNode(l) ==
  /\ Len(nodes') = Len(nodes) + 1
  /\ ~At(lines', l).active
  /\ At(lines', l).endNode = Len(nodes)
  /\ At(lines', l).end = At(nodes', Len(nodes))
  /\ At(lines', l).startNode = At(lines, l).startNode
  /\ At(lines', l).start = At(lines, l).start
CutAtNewNode(l, m) ==
  /\ CrossingWith(l, m) # Null
  /\ CrossingWith(l, m).point = At(nodes', Len(nodes))
  /\ lines'[m].startNode = Len(nodes)
  /\ lines'[m].start = At(nodes', Len(nodes))
  /\ lines'[m].direction = lines[m].direction
  /\ lines'[m].endNode = lines[m].endNode
  /\ lines'[m].active = lines[m].active
  /\ Len(lines') = Len(lines) + 1
  /\ ~At(lines', Len(lines)).active
  /\ At(lines', Len(lines)).startNode = lines[m].startNode
  /\ At(lines', Len(lines)).start = lines[m].start
  /\ At(lines', Len(lines)).endNode = Len(nodes)
  /\ At(lines', Len(lines)).end = At(nodes', Len(nodes))
NotCut(k) ==
  /\ lines'[k].startNode = lines[k].startNode
  /\ lines'[k].start = lines[k].start
  /\ lines'[k].endNode = lines[k].endNode
  /\ lines'[k].direction = lines[k].direction
  /\ lines'[k].active = lines[k].active
NoNearerCrossing(l, k) ==
  CrossingWith(l, k) # Null =>
    RGe(DistSq(At(lines, l).start, CrossingWith(l, k).point),
        DistSq(At(lines, l).start, At(nodes', Len(nodes))))
C15_NearestCrossingCuts ==
  [][\A l \in 0..(Len(lines) - 1) :
       OnlyHitOf(l) =>
         /\ ClosedAtNewNode(l)
         /\ \E m \in 1..Len(lines) :
              /\ m # l + 1
              /\ CutAtNewNode(l, m)
              /\ \A k \in 1..Len(lines) :
                   (k # l + 1 /\ k # m) => (NotCut(k) /\ NoNearerCrossing(l, k))]_vars
\* a tick in which the third line started, from (96, -10) along x, crossed
\* in one step the lines of the two starts before, at x = 98 and x = 98.5,
\* and nothing else happened
C15_OneLineHit ==
  /\ graphCall.op = "update"
  /\ Len(seeded) = 3
  /\ seeded[3].at = IPt(96, 0 - 10)
  /\ events = <<[type |-> "hit", id |-> 2]>>
  /\ At(lines, 2).end = IPt(98, 0 - 10)
  /\ At(lines, 0).start = IPt(98, 0 - 10)
  /\ At(lines, 1).start = Pt(<<197, 2>>, R(0 - 12))
  /\ At(lines, 1).end = Pt(<<197, 2>>, R(0 - 9))

\* C16: the split trial succeeds with probability `probability`: with
\* probability = 0 no line ever splits, and with probability = 1 every line
\* splits as soon as it has grown more than minDistance since its last
\* split, so that no active line is left beyond that distance.
SplitIn(evs) == \E i \in 1..Len(evs) : evs[i].type = "split"
DueToSplit(line) ==
  line.active /\ Beyond(line.stepsSinceLastSplit, options.minDistance)
C16_SplitsFollowProbability ==
  /\ options.probability = Zero => ~SplitIn(events)
  /\ options.probability = One => \A k \in 1..Len(lines) : ~DueToSplit(lines[k])
\* C17: once a line is closed, its start node, its end node and the
\* coordinates of its two ends never change in a later step.
SameEnds(a, b) ==
  /\ a.startNode = b.startNode
  /\ a.endNode = b.endNode
  /\ a.start = b.start
  /\ a.end = b.end
C17_ClosedLinesAreFixed ==
  [][graphCall'.op = "update" =>
       \A k \in 1..Len(lines) : ~lines[k].active => SameEnds(lines'[k], lines[k])]_vars
\* C18: in every state a line is active exactly when its end node is null;
\* a closed line has its tip at the position of its end node, which is an
\* index of the node list; and over start() and update() a line that is
\* not active does not become active again.
ActiveIffOpen(line) == line.active <=> line.endNode = NoNode
TipBound(line, nds) ==
  ~line.active =>
    /\ line.endNode \in 0..(Len(nds) - 1)
    /\ line.end = At(nds, line.endNode)
C18_ActiveIffNoEndNode ==
  [][/\ \A k \in 1..Len(lines') :
          ActiveIffOpen(lines'[k]) /\ TipBound(lines'[k], nodes')
     /\ graphCall'.op \in {"start", "update"} =>
          \A k \in 1..Len(lines) : ~lines[k].active => ~lines'[k].active]_vars
\* a tick has closed one line at the radius and another at a crossing, and a
\* line is still growing
C18_ClosedAndGrowing ==
  /\ graphCall.op = "update"
  /\ \E k \in 1..Len(lines) : lines[k].active
  /\ \E i, j \in 1..Len(events) :
       events[i].type = "radius" /\ events[j].type = "hit"
\* the faces of runPhaseTwo read back as wedges: place k of region r stands
\* for the wedge (previous pivot, pivot, next pivot), cyclically
PhaseTwoDone == exPc = "scan" /\ scanI >= Len(wedges)
Places == {p \in (1..Len(regions)) \X (1..(2 * MaxEdges)) : p[2] <= Len(regions[p[1]])}
WedgeOfPlace(p) ==
  LET region == regions[p[1]]
      n == Len(region)
  IN  <<region[((p[2] + n - 2) % n) + 1], region[p[2]], region[(p[2] % n) + 1]>>
WedgeTriples == {<<wedges[k].u, wedges[k].v, wedges[k].w>> : k \in 1..Len(wedges)}

\* C19: for a simple graph the face walk pushes only unused wedges, every
\* walk ends because the next wedge is the starting wedge (never because a
\* key is missing), and when the walk is over every wedge is used, stands at
\* exactly one place of exactly one region, and the region lengths sum to
\* the number of wedges, 2 * E.
C19_EveryWedgeOnce ==
  [][/\ WalkStep =>
          /\ ~wedges[currentWedge].used
          /\ exPc' = "scan" =>
                WedgeMapGet(wedges, wedges[currentWedge].v,
                            wedges[currentWedge].w) = startWedge
     /\ PhaseTwoDone =>
          /\ \A k \in 1..Len(wedges) : wedges[k].used
          /\ \A p, q \in Places : p # q => WedgeOfPlace(p) # WedgeOfPlace(q)
          /\ {WedgeOfPlace(p) : p \in Places} = WedgeTriples
          /\ Cardinality(Places) = Len(wedges)
          /\ Len(wedges) = 2 * Len(edges)]_vars

\* the walk is over a graph of MaxEdges edges with at least three faces
C19_WalkedManyFaces ==
  /\ PhaseTwoDone
  /\ Len(edges) = MaxEdges
  /\ Len(regions) >= 3
  /\ \E r \in 1..Len(regions) : Len(regions[r]) >= 4

\* the unbounded face of a connected graph: west of the leftmost (then
\* lowest) vertex that has an edge there is nothing, and the wedge of that
\* vertex that spans the direction west is the one from its last sorted
\* neighbour to its first
HasEdge(v) == \E j \in 1..Len(edges) : v \in {edges[j][1], edges[j][2]}
Leftmost ==
  CHOOSE v \in {u \in 0..(Len(vertices) - 1) : HasEdge(u)} :
    \A u \in 0..(Len(vertices) - 1) : HasEdge(u) =>
      \/ RLt(At(vertices, v).x, At(vertices, u).x)
      \/ At(vertices, v).x = At(vertices, u).x
           /\ RLe(At(vertices, v).y, At(vertices, u).y)
WestWedge ==
  LET ws == WedgesAt(vertices, edges, Leftmost)
  IN  <<ws[Len(ws)].u, Leftmost, ws[Len(ws)].w>>
OuterFace == (CHOOSE p \in Places : WedgeOfPlace(p) = WestWedge)[1]
AbsArea(r) == RAbs(RegionArea(vertices, regions[r]))

\* C20: when solve() removes the outer face of a connected simple planar
\* graph that has a bounded face (E >= V), the unbounded face has an absolute
\* area strictly larger than every other face and is the face that is
\* spliced.
C20_OuterFaceIsLargest ==
  [][(RemoveOuterFace /\ IsSimplePlanarInput /\ IsConnected(vertices, edges)
        /\ Len(edges) >= Len(vertices)) =>
       /\ \A r \in 1..Len(regions) :
            r # OuterFace => RGt(AbsArea(OuterFace), AbsArea(r))
       /\ regions' = Splice(regions, OuterFace)]_vars

\* the same for the graphs with at least two bounded faces
C20_TwoBoundedFaces ==
  [][(RemoveOuterFace /\ IsSimplePlanarInput /\ IsConnected(vertices, edges)
        /\ Len(edges) >= Len(vertices) + 1) =>
       /\ \A r \in 1..Len(regions) :
            r # OuterFace => RGt(AbsArea(OuterFace), AbsArea(r))
       /\ regions' = Splice(regions, OuterFace)]_vars

\* C27: runPhaseTwo terminates on every edge list over valid vertex indices.
\* The next wedge is a function of the current one, so a walk that comes to
\* a wedge it has already pushed, without having ended at its starting
\* wedge, repeats itself for ever: no walk stands on a wedge it has pushed.
C27_WalkNeverRepeats ==
  exPc = "walk" =>
    \A k \in 1..Len(currentRegion) : currentRegion[k] # currentWedge

\* C21: when the walk finds no wedge under the key of the next one, that
\* walk alone ends: the message is logged, the faces stored before stay as
\* they are, the for loop goes on with the next wedge, and when runPhaseTwo
\* returns every wedge left in the array has been walked.
KeyMissing ==
  WedgeMapGet(wedges, wedges[currentWedge].v, wedges[currentWedge].w) = 0
C21_BrokenWalkAlone ==
  [][/\ (WalkStep /\ KeyMissing) =>
          /\ log' = Append(log, "Error: Broken topology")
          /\ SubSeq(regions', 1, Len(regions)) = regions
          /\ exPc' = "scan"
          /\ scanI' = scanI + 1
     /\ PhaseTwoReturn => \A k \in 1..Len(wedges) : wedges[k].used]_vars

\* runPhaseTwo has returned after a walk that broke and a later walk that
\* closed its cycle
C21_BrokenThenClosed ==
  /\ exPc = "walked"
  /\ \E i, j \in 1..Len(log) :
       /\ i < j
       /\ log[i] = "Error: Broken topology"
       /\ log[j] = "Cycle closed."

(***************************************************************************)
(* Properties of the self-intersection resolvers                           *)
(***************************************************************************)

\* two edges cross: the endpoints of each lie strictly on both sides of the
\* other; the pairs (i, j), 0-based, of edges of a polygon that are not
\* adjacent
EdgesCross(a, b, c, d) ==
  /\ Orient(a, b, c) * Orient(a, b, d) < 0
  /\ Orient(c, d, a) * Orient(c, d, b) < 0
ApartEdges(n) ==
  {p \in (0..(n - 1)) \X (0..(n - 1)) :
     p[2] >= p[1] + 2 /\ ~(p[1] = 0 /\ p[2] = n - 1)}
HasCrossing(pts) ==
  \E p \in ApartEdges(Len(pts)) :
    EdgesCross(At(pts, p[1]), At(pts, (p[1] + 1) % Len(pts)),
               At(pts, p[2]), At(pts, (p[2] + 1) % Len(pts)))

\* C22: the sub-loop that replaces the polygon at a crossing has positive
\* (counter-clockwise) signed area; when neither sub-loop has, the resolver
\* returns null instead: the working polygon after a repair is never of
\* area zero or below.
C22_KeptLoopIsPositive ==
  (resolvePc = "loop" /\ resolveIter > 0) =>
    RGt(signedArea(resolvePts), Zero)

\* C23: a resolver never returns a polygon of fewer than 3 vertices or one
\* that has two non-adjacent edges that cross, whether its loop ended because
\* no crossing was found or because the pass count reached its cap.
C23_ResultHasNoCrossing ==
  (resolvePc = "returned" /\ resolveResult # Null) =>
    /\ Len(resolveResult.pts) >= 3
    /\ ~HasCrossing(resolveResult.pts)

\* C24: resolveSelfIntersections returns a polygon without a crossing between
\* non-adjacent edges as the same vertex sequence, and called again on what
\* it returned it returns that sequence once more.
FirstPolygon ==
  IF resolveFirst = Null THEN resolveCall.poly ELSE resolveFirst.call.poly
ResolverReturned ==
  /\ resolvePc = "returned"
  /\ resolveCall.fn = "resolveSelfIntersections"
C24_SimpleIsFixed ==
  (ResolverReturned /\ ~HasCrossing(FirstPolygon)) =>
    resolveResult = [kind |-> "poly", pts |-> FirstPolygon]

\* a five-vertex polygon of non-zero area without a crossing has gone through
\* the resolver twice
C24_ResolvedTwice ==
  /\ ResolverReturned
  /\ resolveFirst # Null
  /\ Len(FirstPolygon) = 5
  /\ signedArea(FirstPolygon) # Zero
  /\ ~HasCrossing(FirstPolygon)

\* C28: every repair of either resolver replaces the polygon by one of
\* strictly fewer vertices, a call on n vertices makes at most n - 3 repairs,
\* and a returned polygon has at most n vertices.
C28_RepairsShrink ==
  [][/\ resolveIter' = resolveIter + 1 => Len(resolvePts') < Len(resolvePts)
     /\ resolveCall' # Null =>
          /\ resolveIter' <= Len(resolveCall'.poly) - 3
          /\ resolveResult' # Null =>
               Len(resolveResult'.pts) <= Len(resolveCall'.poly)]_vars

\* resolveSelfIntersections has returned a polygon after eight repairs, and
\* either resolver one after two
C28_RepairedEightTimes ==
  /\ ResolverReturned
  /\ resolveResult # Null
  /\ resolveIter = 8
C28_CleanedTwice ==
  /\ resolvePc = "returned"
  /\ resolveCall.fn = "cleanSelfIntersections"
  /\ resolveResult # Null
  /\ resolveIter >= 2

\* the second half of C23 for cleanSelfIntersections alone
C23_CleanHasNoCrossing ==
  (resolvePc = "returned" /\ resolveCall.fn = "cleanSelfIntersections"
     /\ resolveResult # Null) =>
    /\ Len(resolveResult.pts) >= 3
    /\ ~HasCrossing(resolveResult.pts)
\* C22 for resolveSelfIntersections alone
C22_ResolverKeepsPositive ==
  (resolvePc = "loop" /\ resolveCall.fn = "resolveSelfIntersections"
     /\ resolveIter > 0) =>
    RGt(signedArea(resolvePts), Zero)

\* C25: in every call of grow during update() the hits that intersects(grid)
\* finds are those that the scan of all lines finds at that moment (the same
\* lines, hence the same points and, sorted by distance, the same order).
\* GridMisses follows a tick as GrowAll does and tells whether some call
\* finds other hits through the grid.
RECURSIVE GridMisses(_, _, _, _, _)
GridMisses(g, o, grid, dr, j) ==
  IF j >= Len(g.lines) THEN FALSE
  ELSE \/ \E me \in {Stepped(At(g.lines, j))} :
            GridIntersects(g.lines, grid, me) # FullScan(g.lines, me)
       \/ \E h \in {GridGrow(g, o, grid, j, DrawOf(dr, j))} :
            GridMisses(h, o, grid, dr, NextActive(h.lines, j + 1))
C25_GridNarrowsOnly ==
  nTicks < GridMaxTicks =>
    \A dr \in TickDraws :
      GridUpdateTick(Growing, options, dr).splits <= SplitsLeft =>
        ~GridMisses(Growing, options, build(lines), dr, NextActive(lines, 0))

(***************************************************************************)
(* Properties of the endpoint-inclusion flag                               *)
(***************************************************************************)
\* the endpoints of one segment of the call that lie on the other segment
SharedEnds(c) ==
  {e \in {c.start1, c.end1} : OnSegment(c.start2, c.end2, e)}
    \cup {e \in {c.start2, c.end2} : OnSegment(c.start1, c.end1, e)}
\* the two segments have exactly one point in common and it is an endpoint
\* of one of them
MeetOnlyAtEnd(c) ==
  /\ SharedEnds(c) # {}
  /\ ~ProperCross(c)
  /\ ParallelSegments(c) => Cardinality(SharedEnds(c)) = 1
FlagRoutine ==
  /\ isectCall # Null
  /\ isectCall.kind \in {"getSegmentIntersection", "getCoplanarSegmentIntersection"}
FlagDecides ==
  IF isectCall.includeEndpoints
    THEN isectResult # Null /\ isectResult.point \in SharedEnds(isectCall)
    ELSE isectResult = Null

\* C26 as stated: for two segments that meet only at an endpoint of one of
\* them the routines return nothing when the flag is false and the shared
\* point when it is true.
C26_EndpointFlagAnySegments ==
  (FlagRoutine /\ MeetOnlyAtEnd(isectCall)) => FlagDecides

\* C26, for segments that are not parallel: when they meet only at an endpoint
\* of one of them (a line parameter is 0 or 1) the routines return nothing
\* when the flag is false and the shared point when it is true.
C26_EndpointFlag ==
  (FlagRoutine /\ MeetOnlyAtEnd(isectCall) /\ ~ParallelSegments(isectCall))
    => FlagDecides
\* a T junction has been tested with the flag set, and a corner without it
C26_TeeWithFlag ==
  /\ FlagRoutine /\ isectCall.includeEndpoints
  /\ isectCall.start1 = IPt(1, 0) /\ isectCall.end1 = IPt(1, 2)
  /\ isectCall.start2 = IPt(0, 0) /\ isectCall.end2 = IPt(2, 0)
  /\ isectResult # Null /\ isectResult.point = IPt(1, 0)

\* C26, in the growing graph: two lines that start at the same node, and a
\* line and the closed piece that ends where it starts, have no hit at that
\* node, neither as they are nor after the next step of the line.
C26_SharedNodeNoHit ==
  \A a \in 1..Len(lines), b \in 1..Len(lines) :
    (a # b /\ lines[a].startNode \in {lines[b].startNode, lines[b].endNode}) =>
      \A me \in {lines[a], Stepped(lines[a])} :
        HitOf(me, lines[b]) = Null \/ HitOf(me, lines[b]).point # lines[a].start
\* a line has split and its children have grown from the node
C26_ThreeFromOneNode ==
  \E a \in 1..Len(lines), b \in 1..Len(lines), c \in 1..Len(lines) :
    /\ a < b /\ lines[a].startNode = lines[b].startNode
    /\ lines[a].startNode = lines[c].endNode
    /\ lines[a].start # lines[a].end /\ lines[b].start # lines[b].end

(***************************************************************************)
(* Properties of the line ids                                              *)
(***************************************************************************)
\* C30: in every reachable state each line's id is its position in the
\* lines array (lines[i].id = i, counted from 0), so that lines[id] is the
\* line that carries the id.
C30_IdIsPosition ==
  \A k \in 1..Len(lines) : lines[k].id = k - 1 /\ At(lines, lines[k].id) = lines[k]
\* a line has split in this tick and its two children have not grown yet
C30_SplitAndCut ==
  /\ nSplits >= 1
  /\ \E a \in 1..Len(lines), b \in 1..Len(lines) :
       a < b /\ lines[a].startNode = lines[b].startNode /\ lines[a].start = lines[a].end
             /\ lines[b].start = lines[b].end /\ lines[a].active /\ lines[b].active
  /\ \E e \in 1..Len(events) : events[e].type = "split"

(***************************************************************************)
(* Properties of the effect registered with effectRAF                      *)
(***************************************************************************)
\* the function has not seen the present value of a signal that its latest
\* run read
Stale == graphOptions # Null /\ \E s \in deps : graphOptions[s] # sigValue[s]
\* what each handler does to the effect
EffectStep ==
  /\ rxCall'.op = "effectRAF" => fnCalls' = 1 /\ ~Stale'
  /\ rxCall'.op = "frame" => fnCalls' = 1 /\ ~Stale' /\ frameCallbacks' = 0
  /\ rxCall'.op \in {"set", "randomize"} =>
       /\ fnCalls' = 0
       /\ (\E s \in deps : sigValue'[s] # sigValue[s]) => frameCallbacks' = 1
       /\ sigValue' = sigValue => frameCallbacks' = frameCallbacks

\* C29: the effect runs once when effectRAF is called and afterwards once in
\* an animation frame and in no other handler; never is more than one frame
\* callback requested, however many signals are set before the frame; a set()
\* that changes a signal read by the latest run leaves a callback requested,
\* a set() that changes no value requests none; and a requested callback leads
\* to a frame whose run has read the values the signals hold then.
C29_OneRunPerFrame ==
  /\ [](/\ frameCallbacks <= 1
        /\ queued <=> frameCallbacks = 1
        /\ Stale => frameCallbacks = 1)
  /\ [][EffectStep]_vars
  /\ (frameCallbacks = 1) ~> (rxCall.op = "frame" /\ ~Stale)
\* after randomize() has set its seven signals one frame has run the effect
\* once, with the seven new values
C29_RandomizedThenOneRun ==
  /\ rxCall.op = "frame" /\ fnCalls = 1 /\ frameCallbacks = 0
  /\ \A s \in RandomNumbers : graphOptions[s] = Number(2)
  /\ graphOptions["angle"] # NewArray(0)
  /\ graphOptions = [s \in Reads |-> sigValue[s]]

====
